---- MODULE Spec2Model ----
(***************************************************************************)
(* Move-generation engine of the Scrabble AI arena: dictionary trie        *)
(* (lib/dawg.ts), rack word generation (lib/word-generator.ts), cross-sets *)
(* (lib/cross-sets.ts), placement search and move selection                *)
(* (app/ai-actions.ts), move validation (lib/validation.ts), scoring       *)
(* (lib/scoring.ts) and heuristics (lib/heuristics.ts).                    *)
(*                                                                         *)
(* Letters are one-character strings, words are sequences of letters,      *)
(* coordinates are zero-based <<x, y>> pairs as in the source.             *)
(***************************************************************************)
EXTENDS Integers, Sequences, FiniteSets, TLC

VARIABLES
    wordList,       \* the word source handed to buildDAWG
    dawg,           \* dawgCache: the trie built from wordList
    dictionarySet,  \* the validator's dictionary (actions.ts)
    board,          \* the board snapshot
    rack,           \* the rack of the player to move
    placedTiles,    \* the placement list handed to validateMove / calculateScore
    args,           \* the remaining arguments of the pending call
    possibleMoves,  \* generateAiMove's list of scored candidates, as last collected
    result,         \* the value returned by the last call
    pc,             \* position of the caller: "idle" before a call, "done" after
    gameState       \* GameContext's gameState, its board apart (the variable board)

vars == <<wordList, dawg, dictionarySet, board, rack, placedTiles, args, possibleMoves, result, pc,
          gameState>>

----------------------------------------------------------------------------
(* Bounds *)

MaxLen == 3        \* longest enumerated word
MaxWords == 2      \* longest enumerated word list

----------------------------------------------------------------------------
(* Letters and words *)

Letters ==
    {"A","B","C","D","E","F","G","H","I","J","K","L","M",
     "N","O","P","Q","R","S","T","U","V","W","X","Y","Z"}

\* charCode 65..90 in ascending order
LetterSeq ==
    <<"A","B","C","D","E","F","G","H","I","J","K","L","M",
      "N","O","P","Q","R","S","T","U","V","W","X","Y","Z">>

SmallAlphabet == {"A", "B"}

WordsUpTo(alphabet, n) == UNION {[1..k -> alphabet] : k \in 0..n}

ListsUpTo(S, n) == UNION {[1..k -> S] : k \in 0..n}

SeqToSet(s) == {s[i] : i \in 1..Len(s)}

None == [none |-> TRUE]

\* e, with the accumulator acc evaluated first (evaluation order only: keeps
\* chains of pending accumulator updates from building up in long loops)
Strict(acc, e) == IF acc = acc THEN e ELSE e

----------------------------------------------------------------------------
(* lib/dawg.ts *)

createNode == [children |-> <<>>, isEndOfWord |-> FALSE]

hasChild(d, n, letter) == letter \in DOMAIN d[n].children

\* one iteration of the inner loop of buildDAWG and the rest of the word
RECURSIVE insertWord(_, _, _, _)
insertWord(d, word, i, currentNode) ==
    IF i > Len(word)
    THEN [d EXCEPT ![currentNode].isEndOfWord = TRUE]
    ELSE IF hasChild(d, currentNode, word[i])
         THEN insertWord(d, word, i + 1, d[currentNode].children[word[i]])
         ELSE LET fresh == Len(d) + 1
                  d1 == Append([d EXCEPT ![currentNode].children =
                                     @ @@ (word[i] :> fresh)],
                               createNode)
              IN  insertWord(d1, word, i + 1, fresh)

RECURSIVE buildFrom(_, _, _)
buildFrom(d, words, k) ==
    IF k > Len(words) THEN d
    ELSE buildFrom(insertWord(d, words[k], 1, 1), words, k + 1)

\* the trie is the sequence of its nodes; node 1 is the root
buildDAWG(words) == buildFrom(<<createNode>>, words, 1)

RECURSIVE walkValid(_, _, _, _)
walkValid(d, word, i, currentNode) ==
    IF i > Len(word) THEN d[currentNode].isEndOfWord
    ELSE IF ~hasChild(d, currentNode, word[i]) THEN FALSE
         ELSE walkValid(d, word, i + 1, d[currentNode].children[word[i]])

isValidWordPrefixOnly(d, word) ==
    LET RECURSIVE w(_, _)
        w(i, n) == IF i > Len(word) THEN TRUE
                   ELSE IF ~hasChild(d, n, word[i]) THEN FALSE
                        ELSE w(i + 1, d[n].children[word[i]])
    IN  w(1, 1)

isValidWord(d, word) == walkValid(d, word, 1, 1)

----------------------------------------------------------------------------
(* Dictionary index: build once, then membership queries *)

InitDawg ==
    /\ wordList \in ListsUpTo(WordsUpTo(SmallAlphabet, MaxLen), MaxWords)
    /\ dawg = None
    /\ dictionarySet = {}
    /\ board = None
    /\ rack = <<>>
    /\ placedTiles = <<>>
    /\ args = None
    /\ possibleMoves = <<>>
    /\ result = None
    /\ gameState = None
    /\ pc = "load"

LoadDAWG ==
    /\ pc = "load"
    /\ dawg' = buildDAWG(wordList)
    /\ pc' = "idle"
    /\ UNCHANGED <<wordList, dictionarySet, board, rack, placedTiles, args, possibleMoves, result, gameState>>

CheckWord ==
    /\ pc = "idle"
    /\ \E s \in WordsUpTo(SmallAlphabet, MaxLen + 1) :
          /\ args' = [word |-> s]
          /\ result' = isValidWord(dawg, s)
    /\ pc' = "done"
    /\ UNCHANGED <<wordList, dawg, dictionarySet, board, rack, placedTiles, possibleMoves, gameState>>

Return ==
    /\ pc = "done"
    /\ pc' = "idle"
    /\ args' = None
    /\ result' = None
    /\ possibleMoves' = <<>>
    /\ UNCHANGED <<wordList, dawg, dictionarySet, board, rack, placedTiles, gameState>>

NextDawg == LoadDAWG \/ CheckWord \/ Return

SpecDawg == InitDawg /\ [][NextDawg]_vars

\* C1: isValidWord(buildDAWG(W), s) is true exactly when s is a member of W
C1_Membership ==
    pc = "done" => (result <=> args.word \in SeqToSet(wordList))

\* a proper prefix of a listed word that is not itself listed was queried
C1_Witness ==
    /\ pc = "done"
    /\ result = FALSE
    /\ Len(args.word) >= 1
    /\ \E k \in 1..Len(wordList) :
          /\ Len(args.word) < Len(wordList[k])
          /\ SubSeq(wordList[k], 1, Len(args.word)) = args.word

----------------------------------------------------------------------------
(* lib/constants.ts: TILE_DISTRIBUTION scores, and tiles *)

TileScore(letter) ==
    CASE letter \in {"A","E","I","L","N","O","R","S","T","U"} -> 1
      [] letter \in {"D","G"} -> 2
      [] letter \in {"B","C","M","P"} -> 3
      [] letter \in {"F","H","V","W","Y"} -> 4
      [] letter = "K" -> 5
      [] letter \in {"J","X"} -> 8
      [] letter \in {"Q","Z"} -> 10
      [] OTHER -> 0

\* createTileBag: a '_' tile is the blank, worth 0
MakeTile(id, letter) ==
    [id |-> id, letter |-> letter, score |-> TileScore(letter), isBlank |-> (letter = "_")]

\* the rack holding the given letters, tile ids in rack order
RackOf(letters) == [i \in 1..Len(letters) |-> MakeTile(i, letters[i])]

----------------------------------------------------------------------------
(* lib/word-generator.ts: generateWordsFromRack *)

\* words.add(currentWord): a Set keeps insertion order and ignores repeats
AddWord(words, w) == IF w \in SeqToSet(words) THEN words ELSE Append(words, w)

RECURSIVE backtrack(_, _, _, _, _)
RECURSIVE tryLetters(_, _, _, _, _, _)
RECURSIVE tryBlank(_, _, _, _, _, _, _)

\* ctx = [d, letters, maxLength]; returns the words set after the call
backtrack(ctx, currentWord, usedIndices, currentNode, words) ==
    LET w1 == IF Len(currentWord) > 1 /\ ctx.d[currentNode].isEndOfWord
              THEN AddWord(words, currentWord) ELSE words
    IN  IF Len(currentWord) >= ctx.maxLength THEN w1
        ELSE tryLetters(ctx, currentWord, usedIndices, currentNode, 1, w1)

\* the for loop over remainingLetters, from index i on
tryLetters(ctx, currentWord, usedIndices, currentNode, i, words) ==
    Strict(words,
    IF i > Len(ctx.letters) THEN words
    ELSE IF i \in usedIndices
    THEN tryLetters(ctx, currentWord, usedIndices, currentNode, i + 1, words)
    ELSE LET letter == ctx.letters[i]
             w1 == IF letter = "_"
                   THEN tryBlank(ctx, currentWord, usedIndices, currentNode, i, 1, words)
                   ELSE IF hasChild(ctx.d, currentNode, letter)
                        THEN backtrack(ctx, Append(currentWord, letter),
                                       usedIndices \cup {i},
                                       ctx.d[currentNode].children[letter], words)
                        ELSE words
         IN  tryLetters(ctx, currentWord, usedIndices, currentNode, i + 1, w1))

\* the loop over charCode 65..90 for the blank at index i: cands holds, in
\* ascending order, the letters for which childNode exists; from cands[c] on
tryBlank(ctx, currentWord, usedIndices, currentNode, i, c, words) ==
    LET cands == SelectSeq(LetterSeq, LAMBDA l : hasChild(ctx.d, currentNode, l))
    IN  Strict(words,
        IF c > Len(cands) THEN words
        ELSE tryBlank(ctx, currentWord, usedIndices, currentNode, i, c + 1,
                      backtrack(ctx, Append(currentWord, cands[c]),
                                usedIndices \cup {i},
                                ctx.d[currentNode].children[cands[c]], words)))

\* the generator with the used-index set never extended (tiles reusable)
generateWordsReusingTiles(rk, d, maxLength) ==
    LET ctx == [d |-> d, maxLength |-> maxLength,
                letters |-> [i \in 1..Len(rk) |-> rk[i].letter]]
        RECURSIVE bt(_, _, _)
        RECURSIVE tl(_, _, _, _)
        bt(cw, node, words) ==
            LET w1 == IF Len(cw) > 1 /\ d[node].isEndOfWord
                      THEN AddWord(words, cw) ELSE words
            IN  IF Len(cw) >= maxLength THEN w1 ELSE tl(cw, node, 1, w1)
        tl(cw, node, i, words) ==
            IF i > Len(ctx.letters) THEN words
            ELSE LET letter == ctx.letters[i]
                     w1 == IF letter # "_" /\ hasChild(d, node, letter)
                           THEN bt(Append(cw, letter), d[node].children[letter], words)
                           ELSE words
                 IN  tl(cw, node, i + 1, w1)
    IN  bt(<<>>, 1, <<>>)

\* Array.from(words): the words in insertion order
generateWordsFromRack(rk, d, maxLength) ==
    backtrack([d |-> d, maxLength |-> maxLength,
               letters |-> [i \in 1..Len(rk) |-> rk[i].letter]],
              <<>>, {}, 1, <<>>)

----------------------------------------------------------------------------
(* Candidate generator: one call per rack and maximum length *)

MaxRack == 3       \* most tiles in an enumerated rack

GenPool ==
    {<<"A">>, <<"A","B">>, <<"B","A">>, <<"A","A">>,
     <<"A","B","A">>, <<"B","A","B","A">>}

RackLetters == {"A", "B", "_"}

InitGen ==
    /\ wordList \in ListsUpTo(GenPool, MaxWords)
    /\ dawg = buildDAWG(wordList)
    /\ dictionarySet = {}
    /\ board = None
    /\ rack \in {RackOf(ls) : ls \in ListsUpTo(RackLetters, MaxRack)}
    /\ placedTiles = <<>>
    /\ args = None
    /\ possibleMoves = <<>>
    /\ result = None
    /\ gameState = None
    /\ pc = "idle"

GenerateWords ==
    /\ pc = "idle"
    /\ \E maxLength \in 0..(MaxRack + 1) :
          /\ args' = [maxLength |-> maxLength]
          /\ result' = generateWordsFromRack(rack, dawg, maxLength)
    /\ pc' = "done"
    /\ UNCHANGED <<wordList, dawg, dictionarySet, board, rack, placedTiles, possibleMoves, gameState>>

NextGen == GenerateWords \/ Return

SpecGen == InitGen /\ [][NextGen]_vars

\* the letters of w can be supplied by distinct rack tiles, '_' supplying any letter
Formable(w, rk) ==
    \E f \in [1..Len(w) -> 1..Len(rk)] :
        /\ \A i, j \in 1..Len(w) : i # j => f[i] # f[j]
        /\ \A i \in 1..Len(w) : rk[f[i]].letter = w[i] \/ rk[f[i]].letter = "_"

NoDuplicates(s) == \A i, j \in 1..Len(s) : i # j => s[i] # s[j]

\* C2: generateWordsFromRack returns, without duplicates, exactly the dictionary
\* words of length 2..maxLength that distinct rack tiles (blanks as any letter)
\* can supply
C2_ExactlyFormable ==
    pc = "done" =>
        /\ NoDuplicates(result)
        /\ SeqToSet(result) =
             {w \in SeqToSet(wordList) :
                 /\ 2 <= Len(w) /\ Len(w) <= args.maxLength
                 /\ Formable(w, rack)}

\* a word is returned that needs the blank, and a dictionary word within the
\* length range is left out because the rack cannot supply it
C2_Witness ==
    /\ pc = "done"
    /\ \E i \in 1..Len(result) : ~Formable(result[i], SelectSeq(rack, LAMBDA t : ~t.isBlank))
    /\ \E w \in SeqToSet(wordList) :
          /\ w \notin SeqToSet(result)
          /\ 2 <= Len(w) /\ Len(w) <= args.maxLength

----------------------------------------------------------------------------
(* lib/constants.ts and lib/gameUtils.ts: boards *)

BOARD_SIZE == 15

StandardTW ==
    {<<0,0>>, <<0,7>>, <<0,14>>, <<7,0>>, <<7,14>>, <<14,0>>, <<14,7>>, <<14,14>>}

StandardDW ==
    {<<1,1>>, <<2,2>>, <<3,3>>, <<4,4>>, <<10,10>>, <<11,11>>, <<12,12>>, <<13,13>>,
     <<1,13>>, <<2,12>>, <<3,11>>, <<4,10>>, <<10,4>>, <<11,3>>, <<12,2>>, <<13,1>>}

StandardTL ==
    {<<1,5>>, <<1,9>>, <<5,1>>, <<5,5>>, <<5,9>>, <<5,13>>, <<9,1>>, <<9,5>>,
     <<9,9>>, <<9,13>>, <<13,5>>, <<13,9>>}

StandardDL ==
    {<<0,3>>, <<0,11>>, <<2,6>>, <<2,8>>, <<3,0>>, <<3,7>>, <<3,14>>, <<6,2>>,
     <<6,6>>, <<6,8>>, <<6,12>>, <<7,3>>, <<7,11>>, <<8,2>>, <<8,6>>, <<8,8>>,
     <<8,12>>, <<11,0>>, <<11,7>>, <<11,14>>, <<12,6>>, <<12,8>>, <<14,3>>, <<14,11>>}

StandardSTART ==
    {<<7,7>>}

\* a bonus map: cell -> bonus tag, for the cells that carry one
BonusMap(tw, dw, tl, dl, start, hazard) ==
    [c \in tw \cup dw \cup tl \cup dl \cup start \cup hazard |->
        CASE c \in start -> "START"
          [] c \in hazard -> "HAZARD"
          [] c \in tw -> "TW"
          [] c \in dw -> "DW"
          [] c \in tl -> "TL"
          [] OTHER -> "DL"]

STANDARD_BOARD ==
    BonusMap(StandardTW, StandardDW, StandardTL, StandardDL, StandardSTART, {})

\* the grid of squares: bonus and tile are kept for the cells that have one
\* (bonus: null and tile: null elsewhere)
initializeBoard(bonusMap) ==
    [rows |-> BOARD_SIZE, cols |-> BOARD_SIZE, bonus |-> bonusMap, tile |-> <<>>]

NoTile == [id |-> 0, letter |-> "", score |-> 0, isBlank |-> FALSE]

InBounds(b, x, y) == x >= 0 /\ x < b.cols /\ y >= 0 /\ y < b.rows

\* board[y][x].tile is set
HasTile(b, x, y) == <<x, y>> \in DOMAIN b.tile

TileAt(b, x, y) == IF HasTile(b, x, y) THEN b.tile[<<x, y>>] ELSE NoTile

BonusAt(b, x, y) == IF <<x, y>> \in DOMAIN b.bonus THEN b.bonus[<<x, y>>] ELSE "NONE"

\* the board with the given tiles put on their cells (applying a move)
WithTiles(b, placed) ==
    [b EXCEPT !.tile =
        [c \in DOMAIN b.tile \cup {<<placed[i].x, placed[i].y>> : i \in 1..Len(placed)} |->
            IF \E i \in 1..Len(placed) : <<placed[i].x, placed[i].y>> = c
            THEN placed[CHOOSE i \in 1..Len(placed) : <<placed[i].x, placed[i].y>> = c].tile
            ELSE b.tile[c]]]

----------------------------------------------------------------------------
(* lib/cross-sets.ts *)

getAllLetters == Letters

isValidWordInDAWG(d, word) == walkValid(d, word, 1, 1)

\* the while loop collecting the letters before the cell, walking backwards
RECURSIVE collectPrefix(_, _, _, _, _, _)
collectPrefix(b, px, py, dx, dy, prefix) ==
    IF InBounds(b, px, py) /\ HasTile(b, px, py)
    THEN collectPrefix(b, px - dx, py - dy, dx, dy, <<TileAt(b, px, py).letter>> \o prefix)
    ELSE prefix

\* the while loop collecting the letters after the cell, walking forwards
RECURSIVE collectSuffix(_, _, _, _, _, _)
collectSuffix(b, sx, sy, dx, dy, suffix) ==
    IF InBounds(b, sx, sy) /\ HasTile(b, sx, sy)
    THEN collectSuffix(b, sx + dx, sy + dy, dx, dy, Append(suffix, TileAt(b, sx, sy).letter))
    ELSE suffix

calculateCrossSetAt(b, x, y, isHorizontal, d) ==
    LET dx == IF isHorizontal THEN 1 ELSE 0
        dy == IF isHorizontal THEN 0 ELSE 1
        hasBefore == InBounds(b, x - dx, y - dy) /\ HasTile(b, x - dx, y - dy)
        hasAfter == InBounds(b, x + dx, y + dy) /\ HasTile(b, x + dx, y + dy)
        prefix == collectPrefix(b, x - dx, y - dy, dx, dy, <<>>)
        suffix == collectSuffix(b, x + dx, y + dy, dx, dy, <<>>)
    IN  IF ~hasBefore /\ ~hasAfter THEN getAllLetters
        ELSE {letter \in Letters : isValidWordInDAWG(d, prefix \o <<letter>> \o suffix)}

isAnchor(b, x, y) ==
    \E n \in {<<x + 1, y>>, <<x - 1, y>>, <<x, y + 1>>, <<x, y - 1>>} :
        InBounds(b, n[1], n[2]) /\ HasTile(b, n[1], n[2])

\* the map of cross-sets: key <<x, y, "H">> holds the letters legal against the
\* row through the cell, key <<x, y, "V">> those legal against the column
calculateCrossSets(b, d) ==
    [k \in {key \in (0..(b.cols - 1)) \X (0..(b.rows - 1)) \X {"H", "V"} :
                ~HasTile(b, key[1], key[2])} |->
        [letters |-> calculateCrossSetAt(b, k[1], k[2], k[3] = "H", d),
         isAnchor |-> isAnchor(b, k[1], k[2])]]

\* the lookup with the two keys exchanged
getCrossSetAtSameAxis(crossSets, x, y, isHorizontalPlay) ==
    LET key == <<x, y, IF isHorizontalPlay THEN "H" ELSE "V">>
    IN  IF key \in DOMAIN crossSets THEN crossSets[key].letters ELSE getAllLetters

getCrossSetAt(crossSets, x, y, isHorizontalPlay) ==
    LET key == <<x, y, IF isHorizontalPlay THEN "V" ELSE "H">>
    IN  IF key \in DOMAIN crossSets THEN crossSets[key].letters ELSE getAllLetters

----------------------------------------------------------------------------
(* Cross-set calculator: boards with a few tiles near two corners *)

MaxBoardTiles == 3     \* most tiles on an enumerated board

CrossWords == <<<<"A","T">>, <<"T","A">>, <<"T","A","T">>, <<"A","T","T">>>>

CrossLetters == {"A", "T"}

\* the cells that may hold a tile: a block at the top-left corner and a run
\* at the end of the bottom row
CrossWindow ==
    {<<x, y>> : x \in 0..2, y \in 0..1} \cup {<<x, 14>> : x \in 13..14}

\* the boards with the tiles of asg (cell -> letter) on the standard layout
BoardWith(bonusMap, asg) ==
    [initializeBoard(bonusMap) EXCEPT
        !.tile = [c \in DOMAIN asg |-> MakeTile(100 + c[1] + 15 * c[2], asg[c])]]

\* the empty cells a cross-set is looked up for: the window and the cells
\* beyond its runs
CrossQueryCells == CrossWindow \cup {<<x, 2>> : x \in 0..2} \cup {<<12, 14>>}

BoardsIn(bonusMap, window, letters, n) ==
    {BoardWith(bonusMap, asg) :
        asg \in UNION {[cells -> letters] :
                         cells \in {cs \in SUBSET window : Cardinality(cs) <= n}}}

InitCross ==
    /\ wordList = CrossWords
    /\ dawg = buildDAWG(wordList)
    /\ dictionarySet = {}
    /\ board \in BoardsIn(STANDARD_BOARD, CrossWindow, CrossLetters, MaxBoardTiles)
    /\ rack = <<>>
    /\ placedTiles = <<>>
    /\ args = None
    /\ possibleMoves = <<>>
    /\ result = None
    /\ gameState = None
    /\ pc = "idle"

LookupCrossSet ==
    /\ pc = "idle"
    /\ \E c \in CrossQueryCells, isHorizontalPlay \in BOOLEAN :
          /\ ~HasTile(board, c[1], c[2])
          /\ args' = [x |-> c[1], y |-> c[2], isHorizontalPlay |-> isHorizontalPlay]
          /\ result' = getCrossSetAt(calculateCrossSets(board, dawg), c[1], c[2], isHorizontalPlay)
    /\ pc' = "done"
    /\ UNCHANGED <<wordList, dawg, dictionarySet, board, rack, placedTiles, possibleMoves, gameState>>

NextCross == LookupCrossSet \/ Return

SpecCross == InitCross /\ [][NextCross]_vars

\* the cell at distance k from <<x, y>> along the axis perpendicular to the play
PerpCell(x, y, isHorizontalPlay, k) ==
    IF isHorizontalPlay THEN <<x, y + k>> ELSE <<x + k, y>>

Occupied(b, c) == InBounds(b, c[1], c[2]) /\ HasTile(b, c[1], c[2])

\* length of the maximal contiguous run of board letters next to the cell on
\* the side given by sign (-1 before, 1 after)
RunLength(b, x, y, isHorizontalPlay, sign) ==
    CHOOSE n \in 0..(b.rows + b.cols) :
        /\ \A k \in 1..n : Occupied(b, PerpCell(x, y, isHorizontalPlay, sign * k))
        /\ ~Occupied(b, PerpCell(x, y, isHorizontalPlay, sign * (n + 1)))

\* prefix + L + suffix for the maximal runs on the perpendicular axis
PerpWord(b, x, y, isHorizontalPlay, L) ==
    LET nb == RunLength(b, x, y, isHorizontalPlay, -1)
        na == RunLength(b, x, y, isHorizontalPlay, 1)
        cellAt(i) == PerpCell(x, y, isHorizontalPlay, i - nb - 1)
    IN  [i \in 1..(nb + 1 + na) |->
            IF i = nb + 1 THEN L ELSE b.tile[cellAt(i)].letter]

ExpectedCrossSet(b, x, y, isHorizontalPlay) ==
    IF /\ ~Occupied(b, PerpCell(x, y, isHorizontalPlay, -1))
       /\ ~Occupied(b, PerpCell(x, y, isHorizontalPlay, 1))
    THEN Letters
    ELSE {L \in Letters : PerpWord(b, x, y, isHorizontalPlay, L) \in SeqToSet(wordList)}

\* C3: the cross-set used for a play along one axis is all 26 letters when no
\* perpendicular neighbour is occupied, and otherwise exactly the letters L
\* for which prefix + L + suffix (maximal perpendicular runs) is a dictionary word
C3_CrossSet ==
    pc = "done" =>
        result = ExpectedCrossSet(board, args.x, args.y, args.isHorizontalPlay)

\* a cell between two board letters on the perpendicular axis, with a free
\* neighbour on the play axis, is limited to the one letter that joins them
C3_Witness ==
    /\ pc = "done"
    /\ RunLength(board, args.x, args.y, args.isHorizontalPlay, -1) >= 1
    /\ RunLength(board, args.x, args.y, args.isHorizontalPlay, 1) >= 1
    /\ result = {"A"}

----------------------------------------------------------------------------
(* lib/validation.ts: validateMove *)

Undefined == -1    \* movesMade of a player record that has no such field

NoPlayer == [present |-> FALSE, movesMade |-> Undefined]

Player(movesMade) == [present |-> TRUE, movesMade |-> movesMade]

\* the rule without the case of a player record that has no move count
mustPlaceIndependentlyCounted(mustStartOnStar, currentPlayer) ==
    mustStartOnStar /\ currentPlayer.present /\ currentPlayer.movesMade = 0

\* mustStartOnStar && currentPlayer && (movesMade === 0 || movesMade === undefined)
mustPlaceIndependently(mustStartOnStar, currentPlayer) ==
    /\ mustStartOnStar
    /\ currentPlayer.present
    /\ (currentPlayer.movesMade = 0 \/ currentPlayer.movesMade = Undefined)

\* Array.prototype.sort with the comparator a.x - b.x (isRow) or a.y - b.y:
\* a stable sort, here by insertion
RECURSIVE insertSorted(_, _, _)
insertSorted(sorted, t, isRow) ==
    IF sorted = <<>> THEN <<t>>
    ELSE LET last == sorted[Len(sorted)]
             key(p) == IF isRow THEN p.x ELSE p.y
         IN  IF key(last) <= key(t) THEN Append(sorted, t)
             ELSE Append(insertSorted(SubSeq(sorted, 1, Len(sorted) - 1), t, isRow), last)

RECURSIVE sortFrom(_, _, _, _)
sortFrom(placed, i, isRow, sorted) ==
    IF i > Len(placed) THEN sorted
    ELSE sortFrom(placed, i + 1, isRow, insertSorted(sorted, placed[i], isRow))

\* the placed tiles left in the order they were placed
sortPlacedAsGiven(placed, isRow) == placed

sortPlaced(placed, isRow) == sortFrom(placed, 1, isRow, <<>>)

PlacedAt(placed, x, y) == \E i \in 1..Len(placed) : placed[i].x = x /\ placed[i].y = y

\* placedTiles.find(t => t.x === x && t.y === y): the first match
FindPlaced(placed, x, y) ==
    placed[CHOOSE i \in 1..Len(placed) :
              /\ placed[i].x = x /\ placed[i].y = y
              /\ \A j \in 1..(i - 1) : ~(placed[j].x = x /\ placed[j].y = y)]

\* the neighbours of the row only
NeighborsInRow(x, y) == {<<x + 1, y>>, <<x - 1, y>>}

Neighbors(x, y) == {<<x + 1, y>>, <<x - 1, y>>, <<x, y + 1>>, <<x, y - 1>>}

\* the centre of a 15 x 15 board in place of the START cells
coversStartCentre(b, placed) ==
    \E i \in 1..Len(placed) : placed[i].x = 7 /\ placed[i].y = 7

coversStart(b, placed) ==
    \E i \in 1..Len(placed) : BonusAt(b, placed[i].x, placed[i].y) = "START"

\* the word read from the given position, without the walk back
RECURSIVE wordStartInPlace(_, _, _, _, _)
wordStartInPlace(b, x, y, dx, dy) == <<x, y>>

\* getWordAt: the walk back to the start of the word, over board tiles
RECURSIVE wordStart(_, _, _, _, _)
wordStart(b, x, y, dx, dy) ==
    IF InBounds(b, x - dx, y - dy) /\ HasTile(b, x - dx, y - dy)
    THEN wordStart(b, x - dx, y - dy, dx, dy)
    ELSE <<x, y>>

\* getWordAt: the walk forward, over board tiles and placed tiles
RECURSIVE wordFrom(_, _, _, _, _, _, _)
wordFrom(b, placed, currentX, currentY, dx, dy, word) ==
    IF ~InBounds(b, currentX, currentY) THEN word
    ELSE IF HasTile(b, currentX, currentY)
    THEN wordFrom(b, placed, currentX + dx, currentY + dy, dx, dy,
                  Append(word, TileAt(b, currentX, currentY).letter))
    ELSE IF PlacedAt(placed, currentX, currentY)
    THEN wordFrom(b, placed, currentX + dx, currentY + dy, dx, dy,
                  Append(word, FindPlaced(placed, currentX, currentY).tile.letter))
    ELSE word

\* the word, or <<>> for null (a run of fewer than two letters)
getWordAt(b, placed, startX, startY, dx, dy) ==
    LET st == wordStart(b, startX, startY, dx, dy)
        word == wordFrom(b, placed, st[1], st[2], dx, dy, <<>>)
    IN  IF Len(word) > 1 THEN word ELSE <<>>

RECURSIVE perpWords(_, _, _, _, _)
perpWords(b, placed, isRow, i, words) ==
    IF i > Len(placed) THEN words
    ELSE LET perpWord == getWordAt(b, placed, placed[i].x, placed[i].y,
                                   IF isRow THEN 0 ELSE 1, IF isRow THEN 1 ELSE 0)
         IN  perpWords(b, placed, isRow, i + 1,
                       IF perpWord # <<>> THEN Append(words, perpWord) ELSE words)

Rejected(message, placed) ==
    [isValid |-> FALSE, message |-> message, words |-> <<>>, placedTiles |-> placed]

\* returns isValid, message, words and the placedTiles array as the call leaves it
validateMove(b, placed, isFirstMove, currentPlayer, mustStartOnStar) ==
    IF Len(placed) = 0 THEN Rejected("No tiles placed.", placed)
    ELSE
    LET uniqueXs == {placed[i].x : i \in 1..Len(placed)}
        uniqueYs == {placed[i].y : i \in 1..Len(placed)}
        isRow == Cardinality(uniqueYs) = 1
        isCol == Cardinality(uniqueXs) = 1
    IN
    IF ~isRow /\ ~isCol
    THEN Rejected("Tiles must be placed in a straight line.", placed)
    ELSE
    LET sorted == sortPlaced(placed, isRow)
        start == IF isRow THEN sorted[1].x ELSE sorted[1].y
        end == IF isRow THEN sorted[Len(sorted)].x ELSE sorted[Len(sorted)].y
        fixedCoord == IF isRow THEN sorted[1].y ELSE sorted[1].x
        cellX(i) == IF isRow THEN i ELSE fixedCoord
        cellY(i) == IF isRow THEN fixedCoord ELSE i
        hasGap == \E i \in start..end :
                     /\ ~PlacedAt(sorted, cellX(i), cellY(i))
                     /\ ~HasTile(b, cellX(i), cellY(i))
        independent == mustPlaceIndependently(mustStartOnStar, currentPlayer)
        touchesExisting ==
            \E i \in 1..Len(sorted) : \E n \in Neighbors(sorted[i].x, sorted[i].y) :
                /\ InBounds(b, n[1], n[2])
                /\ HasTile(b, n[1], n[2])
                /\ ~PlacedAt(sorted, n[1], n[2])
        connectedToExisting ==
            \/ \E i \in 1..Len(sorted) : HasTile(b, sorted[i].x, sorted[i].y)
            \/ \E i \in 1..Len(sorted) : \E n \in Neighbors(sorted[i].x, sorted[i].y) :
                  InBounds(b, n[1], n[2]) /\ HasTile(b, n[1], n[2])
        primaryWord == getWordAt(b, sorted, IF isRow THEN sorted[1].x ELSE fixedCoord,
                                 IF isRow THEN fixedCoord ELSE sorted[1].y,
                                 IF isRow THEN 1 ELSE 0, IF isRow THEN 0 ELSE 1)
        words == perpWords(b, sorted, isRow, 1,
                           IF primaryWord # <<>> THEN <<primaryWord>> ELSE <<>>)
    IN
    IF hasGap THEN Rejected("Tiles must be contiguous (no gaps).", sorted)
    ELSE IF independent /\ ~coversStart(b, sorted)
    THEN Rejected("Your first move must cover a star square.", sorted)
    ELSE IF independent /\ touchesExisting
    THEN Rejected("Your first move must be independent - do not connect to existing words.", sorted)
    ELSE IF isFirstMove /\ ~coversStart(b, sorted)
    THEN Rejected("First move must cover a center square.", sorted)
    ELSE IF isFirstMove /\ Len(sorted) < 2
    THEN Rejected("First move must consist of at least two letters.", sorted)
    ELSE IF ~isFirstMove /\ ~independent /\ ~connectedToExisting
    THEN Rejected("Tiles must be connected to existing words.", sorted)
    ELSE [isValid |-> TRUE, message |-> "", words |-> words, placedTiles |-> sorted]

----------------------------------------------------------------------------
(* lib/scoring.ts: calculateScore *)

ScoreWalkLimit == 15   \* the literal 15 in the walks of scoreWord

HAZARD_PENALTY == 10

BINGO_BONUS == 50

BINGO_TILES == 7

TileOrPlaced(b, placed, x, y) == HasTile(b, x, y) \/ PlacedAt(placed, x, y)

InScoreLimit(x, y) == x >= 0 /\ y >= 0 /\ x < ScoreWalkLimit /\ y < ScoreWalkLimit

\* scoreWord: the walk back to the start of the word, over board and placed tiles
RECURSIVE scoreStart(_, _, _, _, _, _)
scoreStart(b, placed, x, y, dx, dy) ==
    IF InScoreLimit(x - dx, y - dy) /\ TileOrPlaced(b, placed, x - dx, y - dy)
    THEN scoreStart(b, placed, x - dx, y - dy, dx, dy)
    ELSE <<x, y>>

\* the walk forward that counts the board's tiles but adds only the new tiles' values
RECURSIVE scoreFromNewOnly(_, _, _, _, _, _, _)
scoreFromNewOnly(b, placed, currentX, currentY, dx, dy, acc) ==
    IF ~InScoreLimit(currentX, currentY) \/ ~TileOrPlaced(b, placed, currentX, currentY)
    THEN acc
    ELSE LET isPlaced == PlacedAt(placed, currentX, currentY) /\ ~HasTile(b, currentX, currentY)
             bonus == BonusAt(b, currentX, currentY)
             value == IF isPlaced THEN FindPlaced(placed, currentX, currentY).tile.score ELSE 0
             letterScore == IF isPlaced /\ bonus = "DL" THEN value * 2
                            ELSE IF isPlaced /\ bonus = "TL" THEN value * 3
                            ELSE value
             mult == IF isPlaced /\ bonus \in {"DW", "START"} THEN acc.wordMultiplier * 2
                     ELSE IF isPlaced /\ bonus = "TW" THEN acc.wordMultiplier * 3
                     ELSE acc.wordMultiplier
             hazard == IF isPlaced /\ bonus = "HAZARD" THEN HAZARD_PENALTY ELSE 0
         IN  scoreFromNewOnly(b, placed, currentX + dx, currentY + dy, dx, dy,
                       [wordScore |-> acc.wordScore - hazard + letterScore,
                        wordMultiplier |-> mult,
                        tilesInWord |-> acc.tilesInWord + 1])

\* scoreWord: the walk forward; acc = [wordScore, wordMultiplier, tilesInWord]
RECURSIVE scoreFrom(_, _, _, _, _, _, _)
scoreFrom(b, placed, currentX, currentY, dx, dy, acc) ==
    IF ~InScoreLimit(currentX, currentY) \/ ~TileOrPlaced(b, placed, currentX, currentY)
    THEN acc
    ELSE LET isPlaced == PlacedAt(placed, currentX, currentY)
             tile == IF HasTile(b, currentX, currentY) THEN TileAt(b, currentX, currentY)
                     ELSE FindPlaced(placed, currentX, currentY).tile
             bonus == BonusAt(b, currentX, currentY)
             letterScore == IF isPlaced /\ bonus = "DL" THEN tile.score * 2
                            ELSE IF isPlaced /\ bonus = "TL" THEN tile.score * 3
                            ELSE tile.score
             mult == IF isPlaced /\ bonus \in {"DW", "START"} THEN acc.wordMultiplier * 2
                     ELSE IF isPlaced /\ bonus = "TW" THEN acc.wordMultiplier * 3
                     ELSE acc.wordMultiplier
             hazard == IF isPlaced /\ bonus = "HAZARD" THEN HAZARD_PENALTY ELSE 0
         IN  scoreFrom(b, placed, currentX + dx, currentY + dy, dx, dy,
                       [wordScore |-> acc.wordScore - hazard + letterScore,
                        wordMultiplier |-> mult,
                        tilesInWord |-> acc.tilesInWord + 1])

scoreWord(b, placed, startX, startY, dx, dy) ==
    LET st == scoreStart(b, placed, startX, startY, dx, dy)
        acc == scoreFrom(b, placed, st[1], st[2], dx, dy,
                         [wordScore |-> 0, wordMultiplier |-> 1, tilesInWord |-> 0])
    IN  IF acc.tilesInWord > 1 THEN acc.wordScore * acc.wordMultiplier ELSE 0

RECURSIVE perpScores(_, _, _, _)
perpScores(b, placed, isRow, i) ==
    IF i > Len(placed) THEN 0
    ELSE scoreWord(b, placed, placed[i].x, placed[i].y,
                   IF isRow THEN 0 ELSE 1, IF isRow THEN 1 ELSE 0)
         + perpScores(b, placed, isRow, i + 1)

calculateScore(b, placed) ==
    LET isRow == Cardinality({placed[i].y : i \in 1..Len(placed)}) = 1
        primary == IF Len(placed) > 0
                   THEN scoreWord(b, placed, placed[1].x, placed[1].y,
                                  IF isRow THEN 1 ELSE 0, IF isRow THEN 0 ELSE 1)
                   ELSE 0
    IN  primary + perpScores(b, placed, isRow, 1)
        + (IF Len(placed) = BINGO_TILES THEN BINGO_BONUS ELSE 0)

----------------------------------------------------------------------------
(* lib/heuristics.ts; scores of the selection are kept in tenths of a point *)

Vowels == {"A", "E", "I", "O", "U"}

Count(seq, P(_)) == Cardinality({i \in 1..Len(seq) : P(seq[i])})

evaluateRackLeave(remainingTiles) ==
    IF Len(remainingTiles) = 0 THEN 0
    ELSE
    LET letters == [i \in 1..Len(remainingTiles) |-> remainingTiles[i].letter]
        n == Len(letters)
        vowels == Count(letters, LAMBDA l : l \in Vowels)
        consonants == Count(letters, LAMBDA l : l \notin Vowels /\ l # "_")
        duplicates == n - Cardinality(SeqToSet(letters))
    IN  (IF "Q" \in SeqToSet(letters) /\ "U" \notin SeqToSet(letters) THEN -8 ELSE 0)
        + (IF vowels = n THEN -10 ELSE 0)
        + (IF consonants = n THEN -10 ELSE 0)
        + (IF duplicates > 2 THEN -((duplicates - 2) * 3) ELSE 0)
        \* vowelRatio > 0.7 || vowelRatio < 0.15
        + (IF 10 * vowels > 7 * n \/ 100 * vowels < 15 * n THEN -5 ELSE 0)

NeighborPenalty(bonus) ==
    CASE bonus = "TW" -> 20
      [] bonus = "DW" -> 12
      [] bonus = "TL" -> 6
      [] bonus = "DL" -> 3
      [] OTHER -> 0

\* the four neighbours in the order of the adjacent array
NeighborSeq(x, y) == <<<<x + 1, y>>, <<x - 1, y>>, <<x, y + 1>>, <<x, y - 1>>>>

RECURSIVE boardControlFrom(_, _, _)
boardControlFrom(b, placed, i) ==
    IF i > Len(placed) THEN 0
    ELSE LET x == placed[i].x
             y == placed[i].y
             adj == NeighborSeq(x, y)
             pen(k) == IF InBounds(b, adj[k][1], adj[k][2]) /\ ~HasTile(b, adj[k][1], adj[k][2])
                       THEN NeighborPenalty(BonusAt(b, adj[k][1], adj[k][2]))
                       ELSE 0
             reward == IF BonusAt(b, x, y) \in {"TW", "DW"} THEN 5 ELSE 0
         IN  reward - pen(1) - pen(2) - pen(3) - pen(4) + boardControlFrom(b, placed, i + 1)

evaluateBoardControl(b, placed) == boardControlFrom(b, placed, 1)

getRemainingRack(rk, placed) ==
    SelectSeq(rk, LAMBDA t : \A i \in 1..Len(placed) : placed[i].tile.id # t.id)

\* baseScore + rackLeaveScore * 0.3 + boardControlScore * 0.1, in tenths
calculateHeuristicScore(baseScore, remainingRack, b, placed) ==
    10 * baseScore + 3 * evaluateRackLeave(remainingRack) + evaluateBoardControl(b, placed)

----------------------------------------------------------------------------
(* app/actions.ts: the dictionary validator *)

\* the invalid subset of words, in order
validateWords(dict, words) == SelectSeq(words, LAMBDA w : w \notin dict)

----------------------------------------------------------------------------
(* app/ai-actions.ts: anchors and placement search *)

MAX_WORD_LENGTH == 15   \* maxLength handed to generateWordsFromRack

\* the cells of S in the order of the loops "for y ... for x ..."
RECURSIVE RowMajor(_)
RowMajor(S) ==
    IF S = {} THEN <<>>
    ELSE LET c == CHOOSE c \in S : \A o \in S : c[2] < o[2] \/ (c[2] = o[2] /\ c[1] <= o[1])
         IN  <<c>> \o RowMajor(S \ {c})

isEmptyBoardCheck(b) == DOMAIN b.tile = {}

AddUnique(seq, e) == IF e \in SeqToSet(seq) THEN seq ELSE Append(seq, e)

\* the empty in-bounds neighbours of the occupied cells occ[i..], deduplicated
RECURSIVE adjacentAnchors(_, _, _, _)
adjacentAnchors(b, occ, i, anchors) ==
    IF i > Len(occ) THEN anchors
    ELSE LET adj == NeighborSeq(occ[i][1], occ[i][2])
             ok(k) == InBounds(b, adj[k][1], adj[k][2]) /\ ~HasTile(b, adj[k][1], adj[k][2])
             add(a, k) == IF ok(k) THEN AddUnique(a, adj[k]) ELSE a
         IN  adjacentAnchors(b, occ, i + 1, add(add(add(add(anchors, 1), 2), 3), 4))

StartCells(b) == {c \in DOMAIN b.bonus : b.bonus[c] = "START"}

findAnchors(b, mustStartOnStar, currentPlayer) ==
    IF mustPlaceIndependently(mustStartOnStar, currentPlayer)
    THEN RowMajor({c \in StartCells(b) : ~HasTile(b, c[1], c[2])})
    ELSE IF ~isEmptyBoardCheck(b)
    THEN adjacentAnchors(b, RowMajor(DOMAIN b.tile), 1, <<>>)
    ELSE IF StartCells(b) # {} THEN RowMajor(StartCells(b))
    ELSE <<<<b.cols \div 2, b.rows \div 2>>>>

\* the first tile of the rack, whatever its letter
findTileIndexFirst(tempRack, letter) == IF Len(tempRack) > 0 THEN 1 ELSE 0

\* tempRack.findIndex(t => t.letter === letter || t.isBlank); 0 for -1
findTileIndex(tempRack, letter) ==
    IF \E i \in 1..Len(tempRack) : tempRack[i].letter = letter \/ tempRack[i].isBlank
    THEN CHOOSE i \in 1..Len(tempRack) :
            /\ tempRack[i].letter = letter \/ tempRack[i].isBlank
            /\ \A j \in 1..(i - 1) : ~(tempRack[j].letter = letter \/ tempRack[j].isBlank)
    ELSE 0

RemoveAt(seq, i) == SubSeq(seq, 1, i - 1) \o SubSeq(seq, i + 1, Len(seq))

\* the loop of tryPlaceWord over the letters word[i..]; p holds the call's
\* arguments; returns ok, the placed tiles and the working rack
RECURSIVE placeLetters(_, _, _, _)
placeLetters(p, i, placed, tempRack) ==
    IF i > Len(p.word) THEN [ok |-> TRUE, tiles |-> placed, tempRack |-> tempRack]
    ELSE
    LET x == IF p.isHorizontal THEN p.startX + (i - 1) ELSE p.startX
        y == IF p.isHorizontal THEN p.startY ELSE p.startY + (i - 1)
        letter == p.word[i]
        failed == [ok |-> FALSE, tiles |-> <<>>, tempRack |-> tempRack]
    IN  IF HasTile(p.board, x, y)
        THEN IF p.independent THEN failed
             ELSE IF TileAt(p.board, x, y).letter # letter THEN failed
             ELSE placeLetters(p, i + 1, placed, tempRack)
        ELSE IF letter \notin getCrossSetAt(p.crossSets, x, y, p.isHorizontal) THEN failed
        ELSE LET tileIndex == findTileIndex(tempRack, letter)
             IN  IF tileIndex = 0 THEN failed
                 ELSE LET tile == tempRack[tileIndex]
                      IN  placeLetters(p, i + 1,
                              Append(placed,
                                  [x |-> x, y |-> y,
                                   tile |-> [tile EXCEPT !.letter =
                                                IF tile.isBlank THEN letter ELSE tile.letter]]),
                              RemoveAt(tempRack, tileIndex))

PlaceArgs(b, word, anchorX, anchorY, isHorizontal, offset, crossSets, mustStartOnStar, currentPlayer) ==
    [board |-> b, word |-> word, isHorizontal |-> isHorizontal, crossSets |-> crossSets,
     startX |-> IF isHorizontal THEN anchorX - offset ELSE anchorX,
     startY |-> IF isHorizontal THEN anchorY ELSE anchorY - offset,
     independent |-> mustPlaceIndependently(mustStartOnStar, currentPlayer)]

\* the bounds check on the start cell alone
OutOfBoundsStartOnly(p) == p.startX < 0 \/ p.startY < 0

OutOfBounds(p) ==
    \/ p.startX < 0 \/ p.startY < 0
    \/ (p.isHorizontal /\ p.startX + Len(p.word) > p.board.cols)
    \/ (~p.isHorizontal /\ p.startY + Len(p.word) > p.board.rows)

\* tryPlaceWord working on the rack array itself instead of the copy tempRack
tryPlaceWordOnRack(b, word, rk, anchorX, anchorY, isHorizontal, offset, crossSets, mustStartOnStar, currentPlayer) ==
    LET p == PlaceArgs(b, word, anchorX, anchorY, isHorizontal, offset, crossSets,
                       mustStartOnStar, currentPlayer)
        r == placeLetters(p, 1, <<>>, rk)
    IN  IF OutOfBounds(p) THEN [ok |-> FALSE, tiles |-> <<>>, rack |-> rk]
        ELSE [ok |-> r.ok /\ Len(r.tiles) > 0, tiles |-> r.tiles, rack |-> r.tempRack]

\* returns ok (FALSE for null), the placed tiles, and the rack array as the
\* call leaves it: the loop consumes tiles of the copy tempRack = [...rack]
\* and places copies { ...tile } of them
tryPlaceWord(b, word, rk, anchorX, anchorY, isHorizontal, offset, crossSets, mustStartOnStar, currentPlayer) ==
    LET p == PlaceArgs(b, word, anchorX, anchorY, isHorizontal, offset, crossSets,
                       mustStartOnStar, currentPlayer)
        r == placeLetters(p, 1, <<>>, rk)
    IN  IF OutOfBounds(p) THEN [ok |-> FALSE, tiles |-> <<>>, rack |-> rk]
        ELSE [ok |-> r.ok /\ Len(r.tiles) > 0, tiles |-> r.tiles, rack |-> rk]

\* rack.find(t => t.letter === letter)?.score || 1
estimateLetter(rk, letter) ==
    IF \E i \in 1..Len(rk) : rk[i].letter = letter
    THEN LET sc == rk[CHOOSE i \in 1..Len(rk) :
                        /\ rk[i].letter = letter
                        /\ \A j \in 1..(i - 1) : rk[j].letter # letter].score
         IN  IF sc = 0 THEN 1 ELSE sc
    ELSE 1

RECURSIVE estimateFrom(_, _, _)
estimateFrom(word, rk, i) ==
    IF i > Len(word) THEN 0
    ELSE estimateLetter(rk, word[i]) * 3 + estimateFrom(word, rk, i + 1)

estimateMaxScore(word, rk) == estimateFrom(word, rk, 1) * 3

----------------------------------------------------------------------------
(* app/ai-actions.ts: generateAiMove *)

\* the distinct letters on the board, in the order the scan meets them
RECURSIVE boardLettersFrom(_, _, _, _)
boardLettersFrom(b, occ, i, letters) ==
    IF i > Len(occ) THEN letters
    ELSE boardLettersFrom(b, occ, i + 1, AddUnique(letters, b.tile[occ[i]].letter))

TempBoardTile(letter) == [id |-> -1, letter |-> letter, score |-> 1, isBlank |-> FALSE]

RECURSIVE addAll(_, _, _)
addAll(words, more, i) ==
    IF i > Len(more) THEN words
    ELSE addAll(AddUnique(words, more[i]), more, i + 1)

\* rackWords extended by the words of rack + one board letter, duplicates removed
RECURSIVE extendedWords(_, _, _, _, _)
extendedWords(rk, d, boardLetters, i, words) ==
    IF i > Len(boardLetters) THEN words
    ELSE extendedWords(rk, d, boardLetters, i + 1,
            addAll(words,
                   generateWordsFromRack(Append(rk, TempBoardTile(boardLetters[i])), d,
                                         MAX_WORD_LENGTH),
                   1))

candidateWords(b, rk, d, mustStartOnStar, currentPlayer) ==
    LET rackWords == generateWordsFromRack(rk, d, MAX_WORD_LENGTH)
        skipBoardAware == mustPlaceIndependently(mustStartOnStar, currentPlayer)
    IN  IF ~isEmptyBoardCheck(b) /\ ~skipBoardAware
        THEN extendedWords(rk, d, boardLettersFrom(b, RowMajor(DOMAIN b.tile), 1, <<>>),
                           1, rackWords)
        ELSE rackWords

\* the entry pushed with the selection score in place of the actual score
makeMoveSelectionScore(words, actualScore, tiles, selectionScore) ==
    [words |-> words, score |-> selectionScore \div 10, tiles |-> tiles,
     selectionScore |-> selectionScore]

\* the entry pushed on possibleMoves (word: the formed words; selectionScore in tenths)
makeMove(words, actualScore, tiles, selectionScore) ==
    [words |-> words, score |-> actualScore, tiles |-> tiles,
     selectionScore |-> selectionScore]

\* invalidWords.length === 0, with the validator's answer ignored
approvedUnchecked(dict, words) == TRUE

\* invalidWords.length === 0
approved(dict, words) == Len(validateWords(dict, words)) = 0

\* one pass of the innermost loop body: c holds the call's inputs, acc the
\* locals possibleMoves and bestScore and the rack array as left so far
attempt(c, acc, word, isHorizontal, anchor, offset) ==
    LET move == tryPlaceWord(c.board, word, acc.rack, anchor[1], anchor[2], isHorizontal,
                             offset, c.crossSets, c.mustStartOnStar, c.currentPlayer)
        acc1 == [acc EXCEPT !.rack = move.rack]
        validation == validateMove(c.board, move.tiles, isEmptyBoardCheck(c.board),
                                   c.currentPlayer, c.mustStartOnStar)
        tiles == validation.placedTiles
        actualScore == calculateScore(c.board, tiles)
        selectionScore ==
            IF c.useHeuristics
            THEN calculateHeuristicScore(actualScore, getRemainingRack(acc1.rack, tiles),
                                         c.board, tiles)
            ELSE 10 * actualScore
    IN  IF ~move.ok THEN acc1
        ELSE IF ~(validation.isValid /\ Len(validation.words) > 0) THEN acc1
        ELSE IF ~approved(c.dict, validation.words) THEN acc1
        ELSE [acc1 EXCEPT
                !.moves = Append(@, makeMove(validation.words, actualScore, tiles, selectionScore)),
                !.bestScore = IF selectionScore > @ THEN selectionScore ELSE @]

RECURSIVE offsetLoop(_, _, _, _, _, _)
offsetLoop(c, acc, word, isHorizontal, anchor, offset) ==
    Strict(acc,
    IF offset >= Len(word) THEN acc
    ELSE offsetLoop(c, attempt(c, acc, word, isHorizontal, anchor, offset),
                    word, isHorizontal, anchor, offset + 1))

RECURSIVE anchorLoop(_, _, _, _, _)
anchorLoop(c, acc, word, isHorizontal, a) ==
    Strict(acc,
    IF a > Len(c.anchors) THEN acc
    ELSE anchorLoop(c, offsetLoop(c, acc, word, isHorizontal, c.anchors[a], 0),
                    word, isHorizontal, a + 1))

\* maxPossible < bestScore, for HARD once a move has been found
pruned(c, acc, word) ==
    /\ c.difficulty = "HARD"
    /\ Len(acc.moves) > 0
    /\ 10 * estimateMaxScore(word, acc.rack) < acc.bestScore

RECURSIVE wordLoop(_, _, _)
wordLoop(c, acc, w) ==
    Strict(acc,
    IF w > Len(c.words) THEN acc
    ELSE IF pruned(c, acc, c.words[w]) THEN wordLoop(c, acc, w + 1)
    ELSE wordLoop(c, anchorLoop(c, anchorLoop(c, acc, c.words[w], TRUE, 1),
                                c.words[w], FALSE, 1),
                  w + 1))

\* generateAiMove up to the selection: the collected possibleMoves and the
\* rack array as the search leaves it
searchMoves(b, rk, d, dict, difficulty, useHeuristics, currentPlayer, mustStartOnStar) ==
    LET anchors == findAnchors(b, mustStartOnStar, currentPlayer)
        c == [board |-> b, dict |-> dict, difficulty |-> difficulty,
              useHeuristics |-> useHeuristics, currentPlayer |-> currentPlayer,
              mustStartOnStar |-> mustStartOnStar, anchors |-> anchors,
              crossSets |-> calculateCrossSets(b, d),
              words |-> candidateWords(b, rk, d, mustStartOnStar, currentPlayer)]
        acc0 == [moves |-> <<>>, bestScore |-> 0, rack |-> rk]
    IN  IF Len(anchors) = 0 THEN acc0
        ELSE wordLoop(c, acc0, 1)

\* every index is open to every difficulty
selectionLimitAll(difficulty, n) == n

\* the number of leading positions of the sorted list the pick is made from:
\* possibleMoves[0], floor(random * ceil(n / 2)), floor(random * n)
selectionLimit(difficulty, n) ==
    CASE difficulty = "HARD" -> 1
      [] difficulty = "MEDIUM" -> (n + 1) \div 2
      [] OTHER -> n

\* after the shuffle and the stable sort by descending selection score, entry
\* e can stand at position index (from 0): the shuffle decides the order of ties
CanStandAt(moves, e, index) ==
    LET greater == Cardinality({k \in 1..Len(moves) :
                       moves[k].selectionScore > moves[e].selectionScore})
        equal == Cardinality({k \in 1..Len(moves) :
                       moves[k].selectionScore = moves[e].selectionScore})
    IN  greater <= index /\ index < greater + equal

Null == [null |-> TRUE]

----------------------------------------------------------------------------
(* The engine: one generateAiMove call per turn on a board and rack snapshot *)

Difficulties == {"EASY", "MEDIUM", "HARD"}

GenerateAiMove ==
    /\ pc = "idle"
    /\ \E difficulty \in Difficulties, useHeuristics \in BOOLEAN,
          mustStartOnStar \in BOOLEAN, movesMade \in {0, 1} :
          /\ (mustStartOnStar \/ movesMade = 0)
          /\ args' = [board |-> board, rack |-> rack, difficulty |-> difficulty,
                      useHeuristics |-> useHeuristics,
                      currentPlayer |-> Player(movesMade),
                      mustStartOnStar |-> mustStartOnStar]
          /\ \E out \in {searchMoves(board, rack, dawg, dictionarySet, difficulty,
                                      useHeuristics, Player(movesMade), mustStartOnStar)} :
                /\ rack' = out.rack
                /\ possibleMoves' = out.moves
                /\ IF Len(out.moves) = 0 THEN result' = Null
                   ELSE \E index \in 0..(selectionLimit(difficulty, Len(out.moves)) - 1),
                           e \in 1..Len(out.moves) :
                          /\ CanStandAt(out.moves, e, index)
                          /\ result' = out.moves[e]
    /\ pc' = "done"
    /\ UNCHANGED <<wordList, dawg, dictionarySet, board, placedTiles, gameState>>

MaxEngineRack == 3

\* the word list the DAWG is built from
EngineWords ==
    << <<"C","A","T">>, <<"C","A","T","S">>, <<"A","T">>, <<"T","A">>, <<"A","S">>,
       <<"E","X">>, <<"Z","O">>, <<"X","I">>, <<"O","E">> >>

\* the validator's dictionary: the same words, or a list that lacks some of them
EngineDictionaries == {SeqToSet(EngineWords), SeqToSet(EngineWords) \ {<<"O","E">>, <<"T","A">>}}

\* a layout the RANDOM variant can draw: START at the centre, bonuses anywhere else
RandomLayout == BonusMap({<<8, 8>>}, {<<6, 6>>}, {}, {}, {<<7, 7>>}, {})

\* the positions a game is looked at: a board and the tiles racks are drawn from
EnginePositions ==
    { [board |-> initializeBoard(STANDARD_BOARD), bag |-> <<"C", "A", "T", "_">>],
      [board |-> BoardWith(STANDARD_BOARD,
                           (<<7, 7>> :> "C") @@ (<<8, 7>> :> "A") @@ (<<9, 7>> :> "T")),
       bag |-> <<"S", "A", "T", "_">>],
      [board |-> BoardWith(RandomLayout, (<<7, 7>> :> "E") @@ (<<8, 7>> :> "X")),
       bag |-> <<"Z", "O", "I", "_">>] }

\* the racks of at most n tiles drawn from the bag, in any order
RacksFrom(bag, n) ==
    LET picks == {p \in ListsUpTo(1..Len(bag), n) :
                    \A i, j \in 1..Len(p) : i # j => p[i] # p[j]}
    IN  {RackOf([i \in 1..Len(p) |-> bag[p[i]]]) : p \in picks}

Init ==
    /\ pc = "idle"
    /\ wordList = EngineWords
    /\ dawg = buildDAWG(EngineWords)
    /\ dictionarySet \in EngineDictionaries
    /\ \E position \in EnginePositions :
          /\ board = position.board
          /\ rack \in RacksFrom(position.bag, MaxEngineRack)
    /\ placedTiles = <<>>
    /\ args = None
    /\ possibleMoves = <<>>
    /\ result = None
    /\ gameState = None

Next == GenerateAiMove \/ Return

Spec == Init /\ [][Next]_vars

----------------------------------------------------------------------------
(* Properties of generateAiMove, checked under Spec *)

Returned == pc = "done" /\ result # Null

\* C4: after a call of generateAiMove, whatever its arguments and its result,
\* the board and the rack are what they were when the call was made, and a
\* blank bound to a letter in the returned placement is still "_" on the rack
C4_InputsUntouched ==
    pc = "done" =>
        /\ board = args.board
        /\ rack = args.rack
        /\ result # Null =>
              \A i \in 1..Len(result.tiles) :
                 result.tiles[i].tile.isBlank =>
                    \E k \in 1..Len(rack) :
                       /\ rack[k].id = result.tiles[i].tile.id
                       /\ rack[k].letter = "_"

\* a move was returned that plays a blank as a letter next to another rack tile
C4_Witness ==
    /\ Returned
    /\ Len(rack) >= 2
    /\ \E i \in 1..Len(result.tiles) :
          result.tiles[i].tile.isBlank /\ result.tiles[i].tile.letter # "_"

\* C5: a returned move is accepted by validateMove, forms at least one word,
\* and every word it forms is in the validator's dictionary
C5_ReturnedMoveApproved ==
    Returned =>
        LET validation == validateMove(args.board, result.tiles, isEmptyBoardCheck(args.board),
                                       args.currentPlayer, args.mustStartOnStar)
        IN  /\ validation.isValid
            /\ Len(validation.words) > 0
            /\ result.words = validation.words
            /\ \A i \in 1..Len(validation.words) : validation.words[i] \in dictionarySet

\* a move forming two words was returned while the validator's dictionary
\* lacks words the DAWG holds
C5_Witness ==
    /\ Returned
    /\ dictionarySet # SeqToSet(wordList)
    /\ Len(result.words) >= 2

\* C6: in HARD the returned move's selection score is at least that of every
\* legal move, the legal moves being those the search collects over all
\* candidate words when no word is skipped
C6_HardReturnsBest ==
    (pc = "done" /\ args.difficulty = "HARD") =>
        LET legal == searchMoves(args.board, args.rack, dawg, dictionarySet, "EASY",
                                 args.useHeuristics, args.currentPlayer,
                                 args.mustStartOnStar).moves
        IN  Len(legal) > 0 =>
               /\ result # Null
               /\ \A i \in 1..Len(legal) : result.selectionScore >= legal[i].selectionScore

\* the number of collected candidates that score more than the returned one
Better == Cardinality({i \in 1..Len(possibleMoves) :
                          possibleMoves[i].selectionScore > result.selectionScore})

\* C7: with no candidate collected the result is null; otherwise the result is
\* one of the candidates, in HARD one of maximal selection score, in MEDIUM one
\* standing within the first ceil(n/2) positions of the list sorted by
\* descending selection score
C7_SelectionPolicy ==
    pc = "done" =>
        IF Len(possibleMoves) = 0 THEN result = Null
        ELSE /\ result \in SeqToSet(possibleMoves)
             /\ args.difficulty = "HARD" => Better = 0
             /\ args.difficulty = "MEDIUM" => Better < (Len(possibleMoves) + 1) \div 2

\* MEDIUM returned a candidate that is not the best of at least three, while
\* another candidate stands beyond the better half
C7_Witness ==
    /\ Returned
    /\ args.difficulty = "MEDIUM"
    /\ Len(possibleMoves) >= 3
    /\ Better > 0
    /\ \E i \in 1..Len(possibleMoves) :
          Cardinality({k \in 1..Len(possibleMoves) :
              possibleMoves[k].selectionScore > possibleMoves[i].selectionScore})
            >= (Len(possibleMoves) + 1) \div 2

\* C8: the score of a returned move is calculateScore of the board and the
\* returned tiles, with or without heuristics; without heuristics the
\* selection score is that same score (in tenths)
C8_ScoreIsActualScore ==
    Returned =>
        /\ result.score = calculateScore(args.board, result.tiles)
        /\ ~args.useHeuristics => result.selectionScore = 10 * result.score

\* a move was returned whose heuristic selection score differs from its score
C8_Witness ==
    /\ Returned
    /\ args.useHeuristics
    /\ result.selectionScore # 10 * result.score

----------------------------------------------------------------------------
(* A submitted move: validateMove, then calculateScore, on a board and a
   placement (context/GameContext.tsx, app/ai-actions.ts) *)

MaxPlaced == 3

\* a layout the HAZARDS variant can draw
HazardLayout ==
    BonusMap({<<10, 7>>}, {<<6, 6>>, <<9, 7>>}, {<<8, 6>>, <<8, 7>>}, {<<8, 8>>, <<6, 7>>},
             {<<7, 7>>}, {<<9, 8>>, <<10, 6>>})

\* the 45 x 45 board of the MEGA variant: the standard layout laid out three
\* times three, the centre of each copy a START cell
MEGA_BOARD_SIZE == 45

MegaOffsets == {0, 15, 30}

MEGA_BOARD ==
    [c \in {<<k[1] + colOffset, k[2] + rowOffset>> :
                k \in DOMAIN STANDARD_BOARD, colOffset \in MegaOffsets, rowOffset \in MegaOffsets} |->
        IF c[1] % 15 = 7 /\ c[2] % 15 = 7 THEN "START"
        ELSE STANDARD_BOARD[<<c[1] % 15, c[2] % 15>>]]

initializeMegaBoard ==
    [rows |-> MEGA_BOARD_SIZE, cols |-> MEGA_BOARD_SIZE, bonus |-> MEGA_BOARD, tile |-> <<>>]

MegaBoardWith(asg) ==
    [initializeMegaBoard EXCEPT
        !.tile = [c \in DOMAIN asg |-> MakeTile(100 + c[1] + MEGA_BOARD_SIZE * c[2], asg[c])]]

\* where the placements are drawn: around the centre of the board
Origin(b) == IF b.rows = MEGA_BOARD_SIZE THEN 15 ELSE 0

\* CAT on row 7 + o, columns 7 + o to 9 + o
CatTiles(o) ==
    (<<7 + o, 7 + o>> :> "C") @@ (<<8 + o, 7 + o>> :> "A") @@ (<<9 + o, 7 + o>> :> "T")

ScoreBoards ==
    { initializeBoard(STANDARD_BOARD), BoardWith(STANDARD_BOARD, CatTiles(0)),
      initializeBoard(HazardLayout), BoardWith(HazardLayout, CatTiles(0)),
      initializeMegaBoard, MegaBoardWith(CatTiles(15)) }

ScoreLetters == {"S", "Z"}

\* the rows and columns of the region placements are drawn in
ScoreLines(o) ==
    {{<<x + o, y + o>> : x \in 6..10} : y \in 6..8}
        \cup {{<<x + o, y + o>> : y \in 6..8} : x \in 6..10}

Reverse(seq) == [i \in 1..Len(seq) |-> seq[Len(seq) + 1 - i]]

\* the tiles of letters[c] on the cells of seq, in that order, ids by position
PlacementOf(cells, letters) ==
    [i \in 1..Len(cells) |->
        [x |-> cells[i][1], y |-> cells[i][2], tile |-> MakeTile(i, letters[cells[i]])]]

\* placements of at most n tiles on empty cells of one line, in ascending or
\* descending order of position
LinePlacements(b, n) ==
    LET cellSets == {S \in UNION {SUBSET line : line \in ScoreLines(Origin(b))} :
                        /\ S # {} /\ Cardinality(S) <= n
                        /\ \A c \in S : ~HasTile(b, c[1], c[2])}
    IN  UNION {{PlacementOf(order, letters) :
                    order \in {RowMajor(S), Reverse(RowMajor(S))},
                    letters \in [S -> ScoreLetters]} : S \in cellSets}

\* a full rack, one tile less and one tile more, laid from column 4 of the
\* centre row
LongPlacements(b) ==
    IF ~isEmptyBoardCheck(b) THEN {}
    ELSE {[i \in 1..n |-> [x |-> 3 + i + Origin(b), y |-> 7 + Origin(b),
                           tile |-> MakeTile(i, "S")]] :
            n \in (BINGO_TILES - 1)..(BINGO_TILES + 1)}

\* CAT through the start cell at the centre of an empty board
CatPlacement(o) ==
    <<[x |-> 7 + o, y |-> 7 + o, tile |-> MakeTile(1, "C")],
      [x |-> 8 + o, y |-> 7 + o, tile |-> MakeTile(2, "A")],
      [x |-> 9 + o, y |-> 7 + o, tile |-> MakeTile(3, "T")]>>

InitScore ==
    /\ pc = "idle"
    /\ wordList = <<>>
    /\ dawg = <<>>
    /\ dictionarySet = {}
    /\ board \in ScoreBoards
    /\ rack = <<>>
    /\ placedTiles \in LinePlacements(board, MaxPlaced) \cup LongPlacements(board)
                       \cup (IF isEmptyBoardCheck(board) THEN {CatPlacement(Origin(board))} ELSE {})
    /\ args = None
    /\ possibleMoves = <<>>
    /\ result = None
    /\ gameState = None

\* validateMove(board, currentMoveTiles, isFirstMove, ...): the array is
\* sorted in place by the call
ValidateMove ==
    /\ pc = "idle"
    /\ LET validation == validateMove(board, placedTiles, isEmptyBoardCheck(board),
                                      NoPlayer, FALSE)
       IN  /\ placedTiles' = validation.placedTiles
           /\ result' = [isValid |-> validation.isValid, message |-> validation.message,
                         words |-> validation.words]
           /\ pc' = IF validation.isValid THEN "validated" ELSE "done"
    /\ UNCHANGED <<wordList, dawg, dictionarySet, board, rack, args, possibleMoves, gameState>>

\* calculateScore(board, currentMoveTiles) of an accepted move
CalculateScore ==
    /\ pc = "validated"
    /\ result' = [isValid |-> result.isValid, message |-> result.message,
                  words |-> result.words, score |-> calculateScore(board, placedTiles)]
    /\ pc' = "done"
    /\ UNCHANGED <<wordList, dawg, dictionarySet, board, rack, placedTiles, args, possibleMoves, gameState>>

NextScore == ValidateMove \/ CalculateScore \/ Return

SpecScore == InitScore /\ [][NextScore]_vars

----------------------------------------------------------------------------
(* Properties of calculateScore and of the words of a move, checked under
   SpecScore *)

Scored == pc = "done" /\ result.isValid

NewCells == {<<placedTiles[i].x, placedTiles[i].y>> : i \in 1..Len(placedTiles)}

Filled == DOMAIN board.tile \cup NewCells

\* the cells of the maximal unbroken run of tiles through c along (dx, dy)
RunThrough(c, dx, dy) ==
    {d \in Filled :
        \E k \in (0 - BOARD_SIZE)..BOARD_SIZE :
           /\ d = <<c[1] + k * dx, c[2] + k * dy>>
           /\ \A j \in (0 - BOARD_SIZE)..BOARD_SIZE :
                 ((0 <= j /\ j <= k) \/ (k <= j /\ j <= 0)) =>
                     <<c[1] + j * dx, c[2] + j * dy>> \in Filled}

ValueAt(c) ==
    IF c \in DOMAIN board.tile THEN board.tile[c].score
    ELSE placedTiles[CHOOSE i \in 1..Len(placedTiles) :
                        <<placedTiles[i].x, placedTiles[i].y>> = c].tile.score

NewBonus(c) == IF c \in NewCells THEN BonusAt(board, c[1], c[2]) ELSE "NONE"

LetterPoints(c) ==
    CASE NewBonus(c) = "DL" -> 2 * ValueAt(c)
      [] NewBonus(c) = "TL" -> 3 * ValueAt(c)
      [] NewBonus(c) = "HAZARD" -> ValueAt(c) - HAZARD_PENALTY
      [] OTHER -> ValueAt(c)

WordFactor(c) ==
    CASE NewBonus(c) \in {"DW", "START"} -> 2
      [] NewBonus(c) = "TW" -> 3
      [] OTHER -> 1

RECURSIVE SumOf(_, _)
SumOf(S, f) ==
    IF S = {} THEN 0 ELSE LET c == CHOOSE c \in S : TRUE IN f[c] + SumOf(S \ {c}, f)

RECURSIVE ProductOf(_, _)
ProductOf(S, f) ==
    IF S = {} THEN 1 ELSE LET c == CHOOSE c \in S : TRUE IN f[c] * ProductOf(S \ {c}, f)

\* what a run contributes: nothing if it is a single tile
RunPoints(run) ==
    IF Cardinality(run) < 2 THEN 0
    ELSE SumOf(run, [c \in run |-> LetterPoints(c)])
         * ProductOf(run, [c \in run |-> WordFactor(c)])

AlongRow == \A i \in 1..Len(placedTiles) : placedTiles[i].y = placedTiles[1].y

ExpectedScore ==
    LET main == IF AlongRow THEN <<1, 0>> ELSE <<0, 1>>
        cross == IF AlongRow THEN <<0, 1>> ELSE <<1, 0>>
        first == <<placedTiles[1].x, placedTiles[1].y>>
    IN  RunPoints(RunThrough(first, main[1], main[2]))
        + SumOf(NewCells, [c \in NewCells |-> RunPoints(RunThrough(c, cross[1], cross[2]))])
        + (IF Len(placedTiles) = 7 THEN 50 ELSE 0)

\* C9: the score of an accepted move is the sum, over the run along the move's
\* line and the runs across it through each new tile, of (tile values, doubled
\* on DL and tripled on TL and less 10 on HAZARD for new cells only) times
\* (2 per new DW or START cell, 3 per new TW cell), runs of one tile counting
\* 0, plus 50 when exactly 7 tiles are placed; CAT through the start cell of
\* the empty standard board scores 10
C9_ScoreFormula ==
    Scored =>
        /\ result.score = ExpectedScore
        /\ (board = initializeBoard(STANDARD_BOARD) /\ placedTiles = CatPlacement(0)) =>
              result.score = 10

\* the example: CAT lies on row 7, columns 7 to 9, of a 15 x 15 board and one
\* tile, an S, is placed on the cell after the T
ExtendsCat ==
    /\ board.rows = BOARD_SIZE
    /\ \A c \in DOMAIN CatTiles(0) :
          HasTile(board, c[1], c[2]) /\ TileAt(board, c[1], c[2]).letter = CatTiles(0)[c]
    /\ Len(placedTiles) = 1
    /\ placedTiles[1].x = 10 /\ placedTiles[1].y = 7
    /\ placedTiles[1].tile.letter = "S"

NewCell == <<placedTiles[1].x, placedTiles[1].y>>

\* the values of C, A and T
CatValue == TileScore("C") + TileScore("A") + TileScore("T")

\* C10 as claimed: S placed after CAT is accepted, the formed word is CATS,
\* and the score is the value of the S with the bonus of its cell, the
\* letters already there adding nothing
C10_ScoresOnlyNewTile ==
    (pc = "done" /\ ExtendsCat) =>
        /\ result.isValid
        /\ result.words = <<<<"C", "A", "T", "S">>>>
        /\ result.score = LetterPoints(NewCell) * WordFactor(NewCell)

\* C10 amended: S placed after CAT is accepted, the formed word is CATS, and
\* the score is the values of all four letters, the bonus of the new tile's
\* cell applied (its letter bonus to the value of the S, its word bonus to the
\* sum) and no bonus under C, A and T
C10_ExtensionScoresWholeWord ==
    (pc = "done" /\ ExtendsCat) =>
        /\ result.isValid
        /\ result.words = <<<<"C", "A", "T", "S">>>>
        /\ result.score = (CatValue + LetterPoints(NewCell)) * WordFactor(NewCell)

\* S placed after CAT on the standard board: CATS, 6 points
C10_Witness ==
    /\ pc = "done"
    /\ ExtendsCat
    /\ board = BoardWith(STANDARD_BOARD, CatTiles(0))
    /\ result.score = 6

\* the board with the bonus of cell c taken away
WithoutBonus(b, c) ==
    [b EXCEPT !.bonus = [k \in (DOMAIN b.bonus) \ {c} |-> b.bonus[k]]]

\* C11: for an accepted move, each new tile on a HAZARD cell makes the score
\* exactly 10 lower than the score of the same move on the board that has no
\* bonus on that cell
C11_HazardDeductsTen ==
    Scored =>
        \A c \in NewCells :
            BonusAt(board, c[1], c[2]) = "HAZARD" =>
                result.score = calculateScore(WithoutBonus(board, c), placedTiles) - HAZARD_PENALTY

----------------------------------------------------------------------------
(* validateMove under every rule: the first-move flag, the player's move count
   and the independent-start flag (mustStartOnStar) as submitTurn and
   computePreview pass them *)

\* A and T to the right of the free centre star of the MEGA board
AtTiles(o) == (<<9 + o, 7 + o>> :> "A") @@ (<<10 + o, 7 + o>> :> "T")

ValidateBoards == ScoreBoards \cup {MegaBoardWith(AtTiles(15))}

\* two tiles that share neither a row nor a column
BentPlacement(o) ==
    <<[x |-> 6 + o, y |-> 6 + o, tile |-> MakeTile(1, "S")],
      [x |-> 7 + o, y |-> 8 + o, tile |-> MakeTile(2, "S")]>>

\* the letter laid on a cell: S and Z alternate along every line
CellLetter == [c \in (0..(MEGA_BOARD_SIZE - 1)) \X (0..(MEGA_BOARD_SIZE - 1)) |->
                  IF (c[1] + c[2]) % 2 = 0 THEN "S" ELSE "Z"]

\* placements of at most n tiles on empty cells of one line, in ascending or
\* descending order of position
OrderedPlacements(b, n) ==
    LET cellSets == {S \in UNION {SUBSET line : line \in ScoreLines(Origin(b))} :
                        /\ S # {} /\ Cardinality(S) <= n
                        /\ \A c \in S : ~HasTile(b, c[1], c[2])}
    IN  UNION {{PlacementOf(order, CellLetter) :
                    order \in {RowMajor(S), Reverse(RowMajor(S))}} : S \in cellSets}

ValidatePlacements(b) ==
    OrderedPlacements(b, MaxPlaced) \cup {BentPlacement(Origin(b)), <<>>}

\* the players a turn can belong to: one that has not moved, one that has, one
\* whose record has no move count, and a call that passes no player
CurrentPlayers == {NoPlayer, Player(Undefined), Player(0), Player(1)}

InitValidate ==
    /\ pc = "idle"
    /\ wordList = <<>>
    /\ dawg = <<>>
    /\ dictionarySet = {}
    /\ board \in ValidateBoards
    /\ rack = <<>>
    /\ placedTiles \in ValidatePlacements(board)
    /\ args = None
    /\ possibleMoves = <<>>
    /\ result = None
    /\ gameState = None

\* validateMove(board, currentMoveTiles, moveHistory.length === 0,
\* currentPlayer, mustStartOnStar); no move has been made on an empty board, so
\* no player has moved there. args keeps the arguments as they were passed.
ValidateTurn ==
    /\ pc = "idle"
    /\ \E currentPlayer \in CurrentPlayers, mustStartOnStar \in BOOLEAN :
          /\ isEmptyBoardCheck(board) => currentPlayer.movesMade # 1
          /\ LET isFirstMove == isEmptyBoardCheck(board)
                 validation == validateMove(board, placedTiles, isFirstMove,
                                            currentPlayer, mustStartOnStar)
             IN  /\ args' = [board |-> board, placedTiles |-> placedTiles,
                             isFirstMove |-> isFirstMove, currentPlayer |-> currentPlayer,
                             mustStartOnStar |-> mustStartOnStar]
                 /\ placedTiles' = validation.placedTiles
                 /\ result' = [isValid |-> validation.isValid,
                               message |-> validation.message, words |-> validation.words]
                 /\ pc' = "done"
    /\ UNCHANGED <<wordList, dawg, dictionarySet, board, rack, possibleMoves, gameState>>

NextValidate == ValidateTurn \/ Return

SpecValidate == InitValidate /\ [][NextValidate]_vars

----------------------------------------------------------------------------
(* Properties of validateMove, checked under SpecValidate. They are stated
   over the arguments kept in args, without the operators validateMove is
   built from. *)

Validated == pc = "done"

PlacedCells == {<<args.placedTiles[i].x, args.placedTiles[i].y>> : i \in 1..Len(args.placedTiles)}

PreExisting(c) == c \in DOMAIN board.tile

OnBoard(c) == c[1] >= 0 /\ c[1] < board.cols /\ c[2] >= 0 /\ c[2] < board.rows

InOneRow == \A c, d \in PlacedCells : c[2] = d[2]

InOneColumn == \A c, d \in PlacedCells : c[1] = d[1]

\* the cells from the first to the last placed position of the line
Span ==
    {<<x, lo[2]>> : x \in {x \in 0..(board.cols - 1) :
                                 \E lo, hi \in PlacedCells : lo[1] <= x /\ x <= hi[1]},
                         lo \in PlacedCells}
    \cup {<<lo[1], y>> : y \in {y \in 0..(board.rows - 1) :
                                 \E lo, hi \in PlacedCells : lo[2] <= y /\ y <= hi[2]},
                         lo \in PlacedCells}

LinearGapFree ==
    /\ PlacedCells # {}
    /\ InOneRow \/ InOneColumn
    /\ \A c \in Span : c \in PlacedCells \/ PreExisting(c)

FourAdjacent(c, d) ==
    \/ c[1] = d[1] /\ (c[2] = d[2] + 1 \/ c[2] = d[2] - 1)
    \/ c[2] = d[2] /\ (c[1] = d[1] + 1 \/ c[1] = d[1] - 1)

OnStart == \E c \in PlacedCells : c \in DOMAIN board.bonus /\ board.bonus[c] = "START"

RuleActive ==
    /\ args.mustStartOnStar
    /\ args.currentPlayer # NoPlayer
    /\ args.currentPlayer.movesMade \in {0, Undefined}

\* C12: on the first move of the game, without the independent-start rule, a
\* linear gap-free placement is accepted exactly when it covers a START cell
\* with at least two tiles; without a START cell the message is the
\* must-cover-start one, with a single tile on START the two-letters one
C12_FirstMove ==
    Validated /\ args.isFirstMove /\ ~RuleActive /\ LinearGapFree =>
        /\ result.isValid <=> (OnStart /\ Cardinality(PlacedCells) >= 2)
        /\ ~OnStart => result.message = "First move must cover a center square."
        /\ OnStart /\ Cardinality(PlacedCells) = 1
              => result.message = "First move must consist of at least two letters."

C12_Witness ==
    /\ Validated /\ args.isFirstMove /\ ~RuleActive /\ LinearGapFree
    /\ OnStart /\ Cardinality(PlacedCells) = 2 /\ result.isValid

SpanHoldsBoardTile == \E c \in Span : PreExisting(c)

TouchesBoardTile ==
    \E c \in PlacedCells : \E d \in DOMAIN board.tile : FourAdjacent(c, d)

\* C13: a move that is neither the first move of the game nor under the
\* independent-start rule: a linear gap-free placement is accepted exactly
\* when its span holds a tile of the board or a placed tile is 4-adjacent to
\* one; otherwise it is rejected as not connected
C13_Connectivity ==
    Validated /\ ~args.isFirstMove /\ ~RuleActive /\ LinearGapFree =>
        /\ result.isValid <=> (SpanHoldsBoardTile \/ TouchesBoardTile)
        /\ ~result.isValid => result.message = "Tiles must be connected to existing words."

C13_Witness ==
    /\ Validated /\ ~args.isFirstMove /\ ~RuleActive /\ LinearGapFree
    /\ SpanHoldsBoardTile /\ result.isValid

\* a placed tile is 4-adjacent to a tile of the board that is not a position
\* of the placement
TouchesOutsideTile ==
    \E c \in PlacedCells : \E d \in (DOMAIN board.tile) \ PlacedCells : FourAdjacent(c, d)

OnFreeStart ==
    \E c \in PlacedCells :
        c \in DOMAIN board.bonus /\ board.bonus[c] = "START" /\ ~PreExisting(c)

\* C14: under the independent-start rule a placement is accepted only if it
\* covers an unoccupied START cell and touches no tile of the board; one that
\* fails either condition is rejected, and one that meets both needs no
\* connection to the tiles of the board
C14_IndependentStart ==
    Validated /\ RuleActive =>
        /\ result.isValid => OnFreeStart /\ ~TouchesOutsideTile
        /\ LinearGapFree /\ ~OnFreeStart
              => ~result.isValid /\ result.message = "Your first move must cover a star square."
        /\ LinearGapFree /\ OnFreeStart /\ TouchesOutsideTile
              => /\ ~result.isValid
                 /\ result.message = "Your first move must be independent - do not connect to existing words."
        /\ ~args.isFirstMove /\ LinearGapFree /\ OnFreeStart /\ ~TouchesOutsideTile
              => result.isValid

\* accepted next to nothing on a board that holds tiles
C14_Witness ==
    /\ Validated /\ RuleActive /\ ~args.isFirstMove
    /\ OnFreeStart /\ ~TouchesOutsideTile /\ ~TouchesBoardTile /\ result.isValid

LetterOn(c) ==
    IF c \in DOMAIN board.tile THEN board.tile[c].letter
    ELSE placedTiles[CHOOSE i \in 1..Len(placedTiles) :
                        <<placedTiles[i].x, placedTiles[i].y>> = c].tile.letter

\* the cells of S in reading order: left to right, or top to bottom
InReadingOrder(S) ==
    [i \in 1..Cardinality(S) |->
        CHOOSE c \in S : Cardinality({d \in S : d[1] < c[1] \/ d[2] < c[2]}) = i - 1]

\* the letters of a run as a word, and as the list of the words it adds
WordOfRun(run) ==
    LET cells == InReadingOrder(run) IN [i \in 1..Len(cells) |-> LetterOn(cells[i])]

WordsOfRun(run) == IF Cardinality(run) > 1 THEN <<WordOfRun(run)>> ELSE <<>>

RECURSIVE CrossWordsFrom(_, _, _)
CrossWordsFrom(cells, i, cross) ==
    IF i > Len(cells) THEN <<>>
    ELSE WordsOfRun(RunThrough(cells[i], cross[1], cross[2]))
             \o CrossWordsFrom(cells, i + 1, cross)

ExpectedWords ==
    LET main == IF InOneRow THEN <<1, 0>> ELSE <<0, 1>>
        cross == IF InOneRow THEN <<0, 1>> ELSE <<1, 0>>
        cells == InReadingOrder(PlacedCells)
    IN  WordsOfRun(RunThrough(cells[1], main[1], main[2])) \o CrossWordsFrom(cells, 1, cross)

\* C15: the words of an accepted placement are the whole run of board and
\* placed tiles along the line of the placement, if longer than one tile,
\* then, placed tile by placed tile, the whole run across the line through
\* it, if longer than one tile: nothing else, nothing cut short
C15_WordsFormed ==
    Validated /\ result.isValid => result.words = ExpectedWords

\* a placement down a column whose word across lengthens a word of the board
\* at its front
C15_Witness ==
    /\ Validated /\ result.isValid /\ result.words = ExpectedWords
    /\ Len(result.words) >= 2
    /\ \E c \in PlacedCells : PreExisting(<<c[1] + 1, c[2]>>) /\ ~InOneRow
    /\ \E i \in 1..Len(result.words) : Len(result.words[i]) > Cardinality(PlacedCells) + 1

\* C16: validateMove leaves its arguments as they were: after the call,
\* whatever its outcome, the board and the list of placed tiles, the order of
\* its entries included, are what was passed in
C16_ValidateReadOnly ==
    Validated => board = args.board /\ placedTiles = args.placedTiles

----------------------------------------------------------------------------
(* Properties of the anchors and of the inputs of generateAiMove, checked
   under Spec *)

\* the anchors the call of generateAiMove worked from
AnchorsOfCall == findAnchors(args.board, args.mustStartOnStar, args.currentPlayer)

\* C17: findAnchors returns no coordinate twice, and at least one whenever
\* the board has a START cell or a tile, under every rule; under the
\* independent-start rule it returns unoccupied START cells only
C17_AnchorsNonEmpty ==
    pc = "done" =>
        LET anchors == AnchorsOfCall
            cells == {anchors[i] : i \in 1..Len(anchors)}
        IN  /\ Cardinality(cells) = Len(anchors)
            /\ (\E c \in DOMAIN args.board.bonus : args.board.bonus[c] = "START")
                  \/ DOMAIN args.board.tile # {}
                  => anchors # <<>>
            /\ args.mustStartOnStar /\ args.currentPlayer.movesMade = 0
                  => \A c \in cells :
                        /\ c \in DOMAIN args.board.bonus /\ args.board.bonus[c] = "START"
                        /\ c \notin DOMAIN args.board.tile

\* C18: a call of generateAiMove with an empty rack ends in an input error
\* raised to the caller, not in the no-move result null
C18_EmptyRackIsError ==
    pc = "done" /\ args.rack = <<>> => result # Null

----------------------------------------------------------------------------
(* context/GameContext.tsx: a game from startGame on. gameState holds the
   fields of the source's gameState except the board, which is the variable
   board; placedTiles is currentMoveTiles. args names the handler that ran
   last and the player it ran for, result what the engine returned to it. *)

RACK_SIZE == 7

Min(a, b) == IF a < b THEN a ELSE b

\* gameUtils.drawTiles: the first count tiles of the bag
drawTiles(bag, count) ==
    [drawn |-> SubSeq(bag, 1, Min(count, Len(bag))),
     newBag |-> SubSeq(bag, Min(count, Len(bag)) + 1, Len(bag))]

\* gameUtils.createTileBag: one tile per entry, ids in order of creation
createTileBag(letters) == [i \in 1..Len(letters) |-> MakeTile(i, letters[i])]

NewPlayer(id, name, rk, isAi, difficulty, useHeuristics, teamId) ==
    [id |-> id, name |-> name, rack |-> rk, score |-> 0, isAi |-> isAi,
     difficulty |-> difficulty, useHeuristics |-> useHeuristics, teamId |-> teamId,
     movesMade |-> 0, resigned |-> FALSE]

TeamNames == <<"Red", "Blue">>

PlayerIds == <<"p0", "p1", "p2", "p3", "p4", "p5", "p6", "p7">>

\* `${team} AI ${i + 1}`
TeamAiNames ==
    <<"Red AI 1", "Blue AI 1", "Red AI 2", "Blue AI 2",
      "Red AI 3", "Blue AI 3", "Red AI 4", "Blue AI 4">>

\* the 4x4 AI battle: Red 1, Blue 1, Red 2, Blue 2, ... each drawing in turn
RECURSIVE teamPlayers(_, _, _)
teamPlayers(bag, playerIndex, players) ==
    IF playerIndex >= Len(PlayerIds) THEN [players |-> players, bag |-> bag]
    ELSE LET d == drawTiles(bag, RACK_SIZE)
             team == TeamNames[(playerIndex % 2) + 1]
         IN  teamPlayers(d.newBag, playerIndex + 1,
                 Append(players,
                        NewPlayer(PlayerIds[playerIndex + 1], TeamAiNames[playerIndex + 1],
                                  d.drawn, TRUE, "MEDIUM", FALSE, team)))

TeamScore(team, score) == [team |-> team, score |-> score]

\* the gameState startGame sets (its board apart)
startGame(variant, difficulty, mode, difficulty2, newBag) ==
    IF mode = "TEAMS" /\ variant = "MEGA"
    THEN LET t == teamPlayers(newBag, 0, <<>>)
         IN  [players |-> t.players, currentPlayerIndex |-> 0, bag |-> t.bag,
              gameOver |-> FALSE, winner |-> Null, moveHistory |-> <<>>, gameMode |-> mode,
              teamScores |-> <<TeamScore("Red", 0), TeamScore("Blue", 0)>>,
              mustStartOnStar |-> FALSE]
    ELSE LET p1 == drawTiles(newBag, RACK_SIZE)
             p2 == drawTiles(p1.newBag, RACK_SIZE)
             player1 == NewPlayer("p0", IF mode = "AI_VS_AI" THEN "AI 1" ELSE "You",
                                  p1.drawn, mode = "AI_VS_AI", difficulty, FALSE, "Team 1")
             player2 == NewPlayer("p1", "AI 2", p2.drawn, TRUE,
                                  IF mode = "AI_VS_AI" THEN difficulty2 ELSE difficulty,
                                  FALSE, "Team 2")
         IN  [players |-> <<player1, player2>>, currentPlayerIndex |-> 0, bag |-> p2.newBag,
              gameOver |-> FALSE, winner |-> Null, moveHistory |-> <<>>, gameMode |-> mode,
              teamScores |-> <<TeamScore("Team 1", 0), TeamScore("Team 2", 0)>>,
              mustStartOnStar |-> FALSE]

CurrentPlayer == gameState.players[gameState.currentPlayerIndex + 1]

NextIndex == (gameState.currentPlayerIndex + 1) % Len(gameState.players)

\* newPlayers[currentPlayerIndex] = player
WithCurrent(player) ==
    [gameState.players EXCEPT ![gameState.currentPlayerIndex + 1] = player]

\* teamScores with score added to the entry of teamId
addTeamScore(teamScores, teamId, score) ==
    [i \in 1..Len(teamScores) |->
        IF teamScores[i].team = teamId
        THEN TeamScore(teamId, teamScores[i].score + score)
        ELSE teamScores[i]]

\* seq.reduce((a, b) => a.score > b.score ? a : b): of equals, the later one
RECURSIVE reduceKeepLater(_, _, _)
reduceKeepLater(seq, i, a) ==
    IF i > Len(seq) THEN a
    ELSE reduceKeepLater(seq, i + 1, IF a.score > seq[i].score THEN a ELSE seq[i])

\* seq.reduce((max, p) => p.score > max.score ? p : max, seq[0]): of equals,
\* the earlier one
RECURSIVE reduceKeepEarlier(_, _, _)
reduceKeepEarlier(seq, i, max) ==
    IF i > Len(seq) THEN max
    ELSE reduceKeepEarlier(seq, i + 1, IF seq[i].score > max.score THEN seq[i] ELSE max)

\* every player resigned, counted over the human players only
allResignedNoAi(players) == \A i \in DOMAIN players : players[i].resigned /\ ~players[i].isAi

allResigned(players) == \A i \in 1..Len(players) : players[i].resigned

\* the moves generateAiMove can return from the candidates it collected
bestMoves(moves, difficulty) ==
    IF Len(moves) = 0 THEN {Null}
    ELSE {moves[e] : e \in {e \in 1..Len(moves) :
                               \E index \in 0..(selectionLimit(difficulty, Len(moves)) - 1) :
                                   CanStandAt(moves, e, index)}}

Called(handler) == [handler |-> handler, player |-> gameState.currentPlayerIndex]

\* canTeammatePlay(teamId, currentPlayerId): an AI teammate that has not
\* resigned gets a move from generateAiMove on the board as it is (the helper
\* is declared in performAiTurn; no statement calls it)
canTeammatePlay(teamId, currentPlayerId) ==
    \E i \in 1..Len(gameState.players) :
        LET teammate == gameState.players[i]
        IN  /\ teammate.teamId = teamId
            /\ teammate.id # currentPlayerId
            /\ teammate.isAi
            /\ ~teammate.resigned
            /\ searchMoves(board, teammate.rack, dawg, dictionarySet, teammate.difficulty,
                           teammate.useHeuristics, NoPlayer, FALSE).moves # <<>>

\* the AI turn effect: runs for an AI player while the game is not over
PerformAiTurn ==
    /\ ~gameState.gameOver
    /\ CurrentPlayer.isAi
    /\ \E out \in {searchMoves(board, CurrentPlayer.rack, dawg, dictionarySet,
                               CurrentPlayer.difficulty, CurrentPlayer.useHeuristics,
                               Player(CurrentPlayer.movesMade), gameState.mustStartOnStar)} :
       \E bestMove \in bestMoves(out.moves, CurrentPlayer.difficulty) :
          /\ args' = Called("performAiTurn")
          /\ result' = bestMove
          /\ IF bestMove # Null
             THEN LET tilesNeeded == RACK_SIZE - (Len(out.rack) - Len(bestMove.tiles))
                      d == drawTiles(gameState.bag, tilesNeeded)
                      newRack == getRemainingRack(out.rack, bestMove.tiles) \o d.drawn
                      newPlayers == WithCurrent([CurrentPlayer EXCEPT
                                        !.rack = newRack,
                                        !.score = CurrentPlayer.score + bestMove.score,
                                        !.movesMade = CurrentPlayer.movesMade + 1])
                      move == [playerId |-> CurrentPlayer.id, word |-> bestMove.words,
                               score |-> bestMove.score]
                  IN  /\ board' = WithTiles(board, bestMove.tiles)
                      /\ gameState' = [gameState EXCEPT
                            !.players = newPlayers,
                            !.bag = d.newBag,
                            !.moveHistory = Append(gameState.moveHistory, move),
                            !.currentPlayerIndex = NextIndex,
                            !.teamScores = addTeamScore(gameState.teamScores,
                                                        CurrentPlayer.teamId, bestMove.score)]
             ELSE LET newPlayers == WithCurrent([CurrentPlayer EXCEPT !.resigned = TRUE])
                  IN  /\ board' = board
                      /\ IF allResigned(newPlayers)
                         THEN LET winnerId ==
                                    IF gameState.gameMode = "TEAMS"
                                    THEN reduceKeepLater(gameState.teamScores, 2,
                                                         gameState.teamScores[1]).team
                                    ELSE reduceKeepLater(newPlayers, 2, newPlayers[1]).id
                              IN  gameState' = [gameState EXCEPT !.players = newPlayers,
                                                   !.gameOver = TRUE, !.winner = winnerId]
                         ELSE gameState' = [gameState EXCEPT !.players = newPlayers,
                                               !.currentPlayerIndex = NextIndex]
    /\ UNCHANGED <<wordList, dawg, dictionarySet, rack, placedTiles, possibleMoves, pc>>

\* the rack after recallAll: the pending tiles go back to the current player
recalledPlayers ==
    IF Len(placedTiles) = 0 THEN gameState.players
    ELSE WithCurrent([CurrentPlayer EXCEPT
             !.rack = CurrentPlayer.rack \o [i \in 1..Len(placedTiles) |-> placedTiles[i].tile]])

\* passTurn, on the human player's turn: recallAll, then the turn moves on
PassTurn ==
    /\ ~CurrentPlayer.isAi
    /\ args' = Called("passTurn")
    /\ result' = None
    /\ gameState' = [gameState EXCEPT !.players = recalledPlayers,
                                      !.currentPlayerIndex = NextIndex]
    /\ placedTiles' = <<>>
    /\ UNCHANGED <<wordList, dawg, dictionarySet, board, rack, possibleMoves, pc>>

\* resignTurn: the Resign button, for whoever is the current player
ResignTurn ==
    /\ args' = Called("resignTurn")
    /\ result' = None
    /\ LET newPlayers == WithCurrent([CurrentPlayer EXCEPT !.resigned = TRUE])
       IN  IF allResigned(newPlayers)
           THEN IF gameState.gameMode = "TEAMS"
                THEN gameState' = gameState
                ELSE LET winner == reduceKeepEarlier(newPlayers, 1, newPlayers[1])
                     IN  gameState' = [gameState EXCEPT !.players = newPlayers,
                                          !.gameOver = TRUE, !.winner = winner.name]
           ELSE gameState' = [gameState EXCEPT !.players = newPlayers,
                                 !.currentPlayerIndex = NextIndex]
    /\ placedTiles' = <<>>
    /\ UNCHANGED <<wordList, dawg, dictionarySet, board, rack, possibleMoves, pc>>

\* the cells the human player drags tiles to
HumanCells == {<<7, 7>>, <<8, 7>>, <<9, 7>>}

MaxPending == 2    \* most tiles laid on the board before the turn is submitted or recalled

\* placeTile(tile, x, y), on the human player's turn
PlaceTile ==
    /\ ~gameState.gameOver
    /\ ~CurrentPlayer.isAi
    /\ Len(placedTiles) < MaxPending
    /\ \E i \in 1..Len(CurrentPlayer.rack), c \in HumanCells :
          /\ ~HasTile(board, c[1], c[2])
          /\ ~PlacedAt(placedTiles, c[1], c[2])
          /\ LET tile == CurrentPlayer.rack[i]
                 newRack == SelectSeq(CurrentPlayer.rack, LAMBDA t : t.id # tile.id)
             IN  /\ gameState' = [gameState EXCEPT
                        !.players = WithCurrent([CurrentPlayer EXCEPT !.rack = newRack])]
                 /\ placedTiles' = Append(placedTiles, [x |-> c[1], y |-> c[2], tile |-> tile])
    /\ args' = Called("placeTile")
    /\ result' = None
    /\ UNCHANGED <<wordList, dawg, dictionarySet, board, rack, possibleMoves, pc>>

\* recallTile(x, y)
RecallTile ==
    /\ ~CurrentPlayer.isAi
    /\ \E i \in 1..Len(placedTiles) :
          LET tileToRecall == FindPlaced(placedTiles, placedTiles[i].x, placedTiles[i].y)
          IN  /\ placedTiles' = SelectSeq(placedTiles,
                                    LAMBDA t : ~(t.x = placedTiles[i].x /\ t.y = placedTiles[i].y))
              /\ gameState' = [gameState EXCEPT !.players = WithCurrent(
                     [CurrentPlayer EXCEPT !.rack = Append(CurrentPlayer.rack, tileToRecall.tile)])]
    /\ args' = Called("recallTile")
    /\ result' = None
    /\ UNCHANGED <<wordList, dawg, dictionarySet, board, rack, possibleMoves, pc>>

\* recallAll()
RecallAll ==
    /\ ~CurrentPlayer.isAi
    /\ Len(placedTiles) > 0
    /\ gameState' = [gameState EXCEPT !.players = recalledPlayers]
    /\ placedTiles' = <<>>
    /\ args' = Called("recallAll")
    /\ result' = None
    /\ UNCHANGED <<wordList, dawg, dictionarySet, board, rack, possibleMoves, pc>>

\* submitTurn: validateMove (which sorts currentMoveTiles), validateWords,
\* calculateScore and the commit; a refused move leaves the tiles pending
SubmitTurn ==
    /\ ~CurrentPlayer.isAi
    /\ Len(placedTiles) > 0
    /\ args' = Called("submitTurn")
    /\ LET validation == validateMove(board, placedTiles, Len(gameState.moveHistory) = 0,
                                      Player(CurrentPlayer.movesMade), gameState.mustStartOnStar)
           currentMoveTiles == validation.placedTiles
           invalidWords == validateWords(dictionarySet, validation.words)
       IN  IF ~validation.isValid \/ (Len(validation.words) > 0 /\ Len(invalidWords) > 0)
           THEN /\ placedTiles' = currentMoveTiles
                /\ result' = [isValid |-> FALSE]
                /\ UNCHANGED <<board, gameState>>
           ELSE LET score == calculateScore(board, currentMoveTiles)
                    d == drawTiles(gameState.bag, RACK_SIZE - Len(CurrentPlayer.rack))
                    newPlayers == WithCurrent([CurrentPlayer EXCEPT
                                      !.rack = CurrentPlayer.rack \o d.drawn,
                                      !.score = CurrentPlayer.score + score,
                                      !.movesMade = CurrentPlayer.movesMade + 1])
                    move == [playerId |-> CurrentPlayer.id, word |-> validation.words,
                             score |-> score]
                IN  /\ board' = WithTiles(board, currentMoveTiles)
                    /\ gameState' = [gameState EXCEPT
                          !.players = newPlayers,
                          !.bag = d.newBag,
                          !.moveHistory = Append(gameState.moveHistory, move),
                          !.currentPlayerIndex = NextIndex,
                          !.teamScores = addTeamScore(gameState.teamScores,
                                                      CurrentPlayer.teamId, score)]
                    /\ placedTiles' = <<>>
                    /\ result' = [isValid |-> TRUE]
    /\ UNCHANGED <<wordList, dawg, dictionarySet, rack, possibleMoves, pc>>

\* seven tiles no word of the dictionary can be made of
StuckRack == <<"Q", "Q", "Q", "Q", "Q", "Q", "Q">>

\* the games looked at: the variant, the mode and the bag as it was shuffled
GameSetups ==
    { [variant |-> "STANDARD", mode |-> "HUMAN_VS_AI", bag |-> <<"A", "T", "S">>],
      [variant |-> "STANDARD", mode |-> "HUMAN_VS_AI", bag |-> <<"A", "T">>],
      [variant |-> "STANDARD", mode |-> "AI_VS_AI",
       bag |-> <<"C", "A", "T", "Q", "Q", "Q", "Q">> \o StuckRack \o <<"S">>],
      [variant |-> "STANDARD", mode |-> "AI_VS_AI", bag |-> StuckRack \o <<"C", "A", "T">>],
      [variant |-> "STANDARD", mode |-> "AI_VS_AI", bag |-> StuckRack \o StuckRack],
      [variant |-> "MEGA", mode |-> "TEAMS", bag |-> StuckRack \o StuckRack \o <<"C", "A", "T">>],
      [variant |-> "MEGA", mode |-> "TEAMS",
       bag |-> StuckRack \o <<"Q", "Q", "Q", "Q", "Q", "A", "T">>] }

InitGame ==
    /\ pc = "idle"
    /\ wordList = EngineWords
    /\ dawg = buildDAWG(EngineWords)
    /\ dictionarySet = SeqToSet(EngineWords)
    /\ rack = <<>>
    /\ placedTiles = <<>>
    /\ args = None
    /\ possibleMoves = <<>>
    /\ result = None
    /\ \E setup \in GameSetups, difficulty \in Difficulties, difficulty2 \in Difficulties :
          /\ board = IF setup.variant = "MEGA" THEN initializeMegaBoard
                     ELSE initializeBoard(STANDARD_BOARD)
          /\ gameState = startGame(setup.variant, difficulty, setup.mode, difficulty2,
                                   createTileBag(setup.bag))

NextGame ==
    \/ PerformAiTurn
    \/ PassTurn
    \/ ResignTurn
    \/ PlaceTile
    \/ RecallTile
    \/ RecallAll
    \/ SubmitTurn

SpecGame == InitGame /\ [][NextGame]_vars

\* the condition under which the AI turn effect runs
AiTurnDue == ~gameState.gameOver /\ CurrentPlayer.isAi

\* the AI turn effect runs again after every change of the state it depends
\* on, so a turn that is due is eventually taken: WF_vars(PerformAiTurn),
\* with ENABLED <<PerformAiTurn>>_vars written out as AiTurnDue (a turn that
\* is due always ends in a move, a resignation or the end of the game)
SpecGameFair == SpecGame /\ ([]<>~AiTurnDue \/ []<><<PerformAiTurn>>_vars)

----------------------------------------------------------------------------
(* Properties of resignation and of the end of the game, checked under
   SpecGame *)

Seats == 1..Len(gameState.players)

\* the seat of the player the last handler ran for
Acted == args.player + 1

NoMoveReturned == args # None /\ args.handler = "performAiTurn" /\ result = Null

Resignation == NoMoveReturned \/ (args # None /\ args.handler = "resignTurn")

OthersResigned == \A i \in Seats \ {Acted} : gameState.players[i].resigned

TeamTotal(team) ==
    LET members == {i \in Seats : gameState.players[i].teamId = team}
    IN  SumOf(members, [i \in members |-> gameState.players[i].score])

Teams == {gameState.players[i].teamId : i \in Seats}

WinnerHasHighestScore ==
    IF gameState.gameMode = "TEAMS"
    THEN \E team \in Teams :
            /\ gameState.winner = team
            /\ \A other \in Teams : TeamTotal(other) <= TeamTotal(team)
    ELSE \E i \in Seats :
            /\ gameState.winner \in {gameState.players[i].id, gameState.players[i].name}
            /\ \A j \in Seats : gameState.players[j].score <= gameState.players[i].score

\* C19: an AI player the engine finds no move for is marked resigned; once
\* the last player still in the game has resigned, by the AI turn or by
\* resignTurn, in every mode, the game is over and the winner is the player,
\* or in TEAMS mode the team, with the highest score; the game is never over
\* while a player has not resigned
C19_LastResignationEndsGame ==
    /\ NoMoveReturned => gameState.players[Acted].resigned
    /\ Resignation /\ OthersResigned => gameState.gameOver /\ WinnerHasHighestScore
    /\ gameState.gameOver => \A i \in Seats : gameState.players[i].resigned

\* C20: in TEAMS mode an AI player the engine finds no move for is marked
\* resigned only if no teammate that has not resigned has a legal move on the
\* board
C20_TeamAwareResignation ==
    gameState # None /\ gameState.gameMode = "TEAMS" /\ NoMoveReturned
        /\ gameState.players[Acted].resigned
        => ~canTeammatePlay(gameState.players[Acted].teamId, gameState.players[Acted].id)

AiOnlyGame == gameState.gameMode \in {"AI_VS_AI", "TEAMS"}

----------------------------------------------------------------------------
(* tryPlaceWord called on its own: SpecPlace *)

\* the positions tryPlaceWord is looked at: those of the engine, and a board
\* whose START square is free next to a word
PlacePositions ==
    EnginePositions \cup
    { [board |-> BoardWith(RandomLayout, (<<8, 7>> :> "A") @@ (<<9, 7>> :> "T")),
       bag |-> <<"S", "A", "_", "T">>] }

\* the anchor cells handed to tryPlaceWord: those of findAnchors under both
\* start rules, the cells holding a tile, and two corners of the board
PlaceAnchors(b) ==
    SeqToSet(findAnchors(b, FALSE, NoPlayer)) \cup SeqToSet(findAnchors(b, TRUE, Player(0)))
        \cup DOMAIN b.tile \cup {<<0, 0>>, <<b.cols - 1, b.rows - 1>>}

\* the start rule and the player of a call: no rule, the rule on the player's
\* first move, the rule after it
StartRules == {<<FALSE, NoPlayer>>, <<TRUE, Player(0)>>, <<TRUE, Player(1)>>}

InitPlace ==
    /\ pc = "idle"
    /\ wordList = EngineWords
    /\ dawg = buildDAWG(EngineWords)
    /\ dictionarySet = SeqToSet(EngineWords)
    /\ \E position \in PlacePositions :
          /\ board = position.board
          /\ rack \in RacksFrom(position.bag, MaxEngineRack)
    /\ placedTiles = <<>>
    /\ args = None
    /\ possibleMoves = <<>>
    /\ result = None
    /\ gameState = None

\* one call tryPlaceWord(board, word, rack, anchor.x, anchor.y, isHorizontal,
\* offset, crossSets, mustStartOnStar, currentPlayer) of the search loop
TryPlaceWord ==
    /\ pc = "idle"
    /\ \E crossSets \in {calculateCrossSets(board, dawg)} :
       \E i \in 1..Len(wordList), anchor \in PlaceAnchors(board), isHorizontal \in BOOLEAN,
          rule \in StartRules :
       \E offset \in 0..(Len(wordList[i]) - 1), mustStartOnStar \in {rule[1]},
          currentPlayer \in {rule[2]} :
          /\ args' = [word |-> wordList[i], anchor |-> anchor, isHorizontal |-> isHorizontal,
                      offset |-> offset, crossSets |-> crossSets,
                      mustStartOnStar |-> mustStartOnStar, currentPlayer |-> currentPlayer]
          /\ result' = tryPlaceWord(board, wordList[i], rack, anchor[1], anchor[2], isHorizontal,
                                    offset, crossSets, mustStartOnStar, currentPlayer)
          /\ rack' = result'.rack
          /\ pc' = "done"
    /\ UNCHANGED <<wordList, dawg, dictionarySet, board, placedTiles, possibleMoves, gameState>>

NextPlace == TryPlaceWord \/ Return

SpecPlace == InitPlace /\ [][NextPlace]_vars

----------------------------------------------------------------------------
(* Properties of tryPlaceWord, checked under SpecPlace *)

PlacementReturned == pc = "done" /\ result.ok

\* the cell of the i-th letter of the word of the call
WordCell(i) ==
    IF args.isHorizontal THEN <<args.anchor[1] - args.offset + (i - 1), args.anchor[2]>>
    ELSE <<args.anchor[1], args.anchor[2] - args.offset + (i - 1)>>

\* the indices of the placed tiles lying on cell c
PlacedOn(c) == {k \in 1..Len(result.tiles) : <<result.tiles[k].x, result.tiles[k].y>> = c}

\* the positions of the rack holding the tile with the given id
RackTilesWithId(id) == {r \in 1..Len(rack) : rack[r].id = id}

\* C22: a placement returned by tryPlaceWord holds at least one tile; along the
\* word, an occupied cell carries the word's letter and gets no tile, and an
\* empty cell gets one tile carrying the word's letter, which lies in the
\* cell's cross-set for the play axis, taken from a rack tile of its own whose
\* letter is that letter or which is blank
C22_PlacementCells ==
    PlacementReturned =>
        /\ Len(result.tiles) >= 1
        /\ \A k \in 1..Len(result.tiles) :
              \E i \in 1..Len(args.word) : <<result.tiles[k].x, result.tiles[k].y>> = WordCell(i)
        /\ \A k, l \in 1..Len(result.tiles) : k # l => result.tiles[k].tile.id # result.tiles[l].tile.id
        /\ \A i \in 1..Len(args.word) :
              LET c == WordCell(i)
              IN  IF c \in DOMAIN board.tile
                  THEN board.tile[c].letter = args.word[i] /\ PlacedOn(c) = {}
                  ELSE /\ Cardinality(PlacedOn(c)) = 1
                       /\ \A k \in PlacedOn(c) :
                             /\ result.tiles[k].tile.letter = args.word[i]
                             /\ args.word[i] \in getCrossSetAt(args.crossSets, c[1], c[2], args.isHorizontal)
                             /\ \E r \in RackTilesWithId(result.tiles[k].tile.id) :
                                   rack[r].letter = args.word[i] \/ rack[r].isBlank

\* a word laid through a tile of the board with a blank standing for a letter
C22_Witness ==
    /\ PlacementReturned
    /\ \E i \in 1..Len(args.word) : WordCell(i) \in DOMAIN board.tile
    /\ \E k \in 1..Len(result.tiles) : result.tiles[k].tile.isBlank
    /\ Len(result.tiles) >= 2

\* the cells of the returned placement
ReturnedCells == {<<result.tiles[k].x, result.tiles[k].y>> : k \in 1..Len(result.tiles)}

\* the cells of the line from the first to the last returned tile
ReturnedSpan ==
    {c \in (0..(board.cols - 1)) \X (0..(board.rows - 1)) :
        \E a, b \in ReturnedCells :
            \/ a[2] = c[2] /\ b[2] = c[2] /\ a[1] <= c[1] /\ c[1] <= b[1]
            \/ a[1] = c[1] /\ b[1] = c[1] /\ a[2] <= c[2] /\ c[2] <= b[2]}

\* validateMove as the search loop calls it on the returned placement
ValidationOfPlacement ==
    validateMove(board, result.tiles, isEmptyBoardCheck(board), args.currentPlayer,
                 args.mustStartOnStar)

AnchorBesideTile ==
    /\ args.anchor \notin DOMAIN board.tile
    /\ \E c \in DOMAIN board.tile : FourAdjacent(args.anchor, c)

\* C23: a placement returned by tryPlaceWord lies within the board, on one row
\* or one column, with every cell between its tiles placed or occupied, and
\* validateMove does not reject it for linearity or for a gap; when the anchor
\* is an empty cell beside an occupied one, the placement covers the anchor and
\* validateMove does not reject it for connectivity
C23_PlacementShape ==
    PlacementReturned =>
        /\ \A c \in ReturnedCells : InBounds(board, c[1], c[2])
        /\ \/ \A a, b \in ReturnedCells : a[2] = b[2]
           \/ \A a, b \in ReturnedCells : a[1] = b[1]
        /\ \A c \in ReturnedSpan : c \in ReturnedCells \/ c \in DOMAIN board.tile
        /\ ValidationOfPlacement.message \notin
              {"Tiles must be placed in a straight line.", "Tiles must be contiguous (no gaps)."}
        /\ AnchorBesideTile =>
              /\ args.anchor \in ReturnedCells
              /\ ValidationOfPlacement.message # "Tiles must be connected to existing words."

\* tiles placed on both sides of a tile of the board, from an anchor beside it
C23_Witness ==
    /\ PlacementReturned
    /\ AnchorBesideTile
    /\ \E c \in ReturnedSpan : c \in DOMAIN board.tile
    /\ ValidationOfPlacement.isValid

\* the word of the call fits the board: its cells are on the board, an
\* occupied cell holds the word's letter and may be used, an empty cell
\* admits the word's letter
WordFitsBoard ==
    /\ \A i \in 1..Len(args.word) : InBounds(board, WordCell(i)[1], WordCell(i)[2])
    /\ \A i \in 1..Len(args.word) :
          LET c == WordCell(i)
          IN  IF c \in DOMAIN board.tile
              THEN /\ ~mustPlaceIndependently(args.mustStartOnStar, args.currentPlayer)
                   /\ board.tile[c].letter = args.word[i]
              ELSE args.word[i] \in getCrossSetAt(args.crossSets, c[1], c[2], args.isHorizontal)

\* the letters of the word falling on empty cells
NeededLetters == {i \in 1..Len(args.word) : WordCell(i) \notin DOMAIN board.tile}

\* the rack holds a tile of its own for every needed letter: the letter or a blank
RackSupplies ==
    \E f \in [NeededLetters -> 1..Len(rack)] :
        /\ \A i, j \in NeededLetters : i # j => f[i] # f[j]
        /\ \A i \in NeededLetters : rack[f[i]].letter = args.word[i] \/ rack[f[i]].isBlank

\* C27: tryPlaceWord returns a placement whenever the word fits the board,
\* needs at least one tile and the rack can supply every needed letter from a
\* tile of its own, whatever the order of the tiles in the rack
C27_RackOrderIrrelevant ==
    pc = "done" /\ WordFitsBoard /\ NeededLetters # {} /\ RackSupplies => result.ok

----------------------------------------------------------------------------
(* Further properties of validateMove, checked under SpecValidate *)

\* C24: validateMove rejects the empty list, every placement not on one line
\* and every placement on a line with a gap, each with its own message,
\* whatever the start-cell and connectivity checks would say
C24_ShapeRejections ==
    Validated =>
        /\ PlacedCells = {} => ~result.isValid /\ result.message = "No tiles placed."
        /\ PlacedCells # {} /\ ~InOneRow /\ ~InOneColumn =>
              ~result.isValid /\ result.message = "Tiles must be placed in a straight line."
        /\ PlacedCells # {} /\ (InOneRow \/ InOneColumn) /\ ~LinearGapFree =>
              ~result.isValid /\ result.message = "Tiles must be contiguous (no gaps)."

\* a placement with a gap on the first move of the game, off the START square
\* and under the independent-start rule
C24_Witness ==
    /\ Validated
    /\ args.isFirstMove /\ RuleActive /\ ~OnStart
    /\ Cardinality(PlacedCells) >= 2 /\ InOneRow /\ ~LinearGapFree
    /\ result.message = "Tiles must be contiguous (no gaps)."

\* C28: a placement validateMove accepts forms at least one word, and every
\* word it reports has two letters or more, whatever the first-move flag, the
\* independent-start flag and the player's move count
C28_AcceptedFormsWord ==
    Validated /\ result.isValid =>
        /\ Len(result.words) >= 1
        /\ \A i \in 1..Len(result.words) : Len(result.words[i]) >= 2

----------------------------------------------------------------------------
(* The scorer against the validator on boards of any size, checked under
   SpecScore *)

\* whether scoreWord counts a word of two tiles or more through (x, y)
ScoresWord(x, y, dx, dy) ==
    LET st == scoreStart(board, placedTiles, x, y, dx, dy)
    IN  scoreFrom(board, placedTiles, st[1], st[2], dx, dy,
                  [wordScore |-> 0, wordMultiplier |-> 1, tilesInWord |-> 0]).tilesInWord > 1

\* the number of words calculateScore scores: the one along the line of the
\* move and those across it
ScoredWordCount ==
    LET main == IF AlongRow THEN <<1, 0>> ELSE <<0, 1>>
        cross == IF AlongRow THEN <<0, 1>> ELSE <<1, 0>>
    IN  (IF ScoresWord(placedTiles[1].x, placedTiles[1].y, main[1], main[2]) THEN 1 ELSE 0)
        + Cardinality({i \in 1..Len(placedTiles) :
                          ScoresWord(placedTiles[i].x, placedTiles[i].y, cross[1], cross[2])})

\* the same tiles on the same bonus cells of a 15 x 15 board
StandardTwin ==
    BoardWith(STANDARD_BOARD,
              [c \in {<<d[1] - Origin(board), d[2] - Origin(board)>> : d \in DOMAIN board.tile} |->
                  board.tile[<<c[1] + Origin(board), c[2] + Origin(board)>>].letter])

\* the same move on the 15 x 15 board
TwinPlacement ==
    [i \in 1..Len(placedTiles) |->
        [placedTiles[i] EXCEPT !.x = @ - Origin(board), !.y = @ - Origin(board)]]

\* C25: the scorer walks the runs the validator walks on a board of any size:
\* it scores as many words as validateMove reports, and a move in the middle
\* section of the 45 x 45 board scores what the same move scores on the
\* 15 x 15 board with the same tiles and bonus cells
C25_ScorerFollowsValidator ==
    Scored =>
        /\ ScoredWordCount = Len(result.words)
        /\ board.rows = MEGA_BOARD_SIZE =>
              result.score = calculateScore(StandardTwin, TwinPlacement)

----------------------------------------------------------------------------
(* evaluateBoardControl called on its own: SpecControl *)

\* evaluateBoardControl(board, placedTiles) on a move laid on the board
EvaluateBoardControl ==
    /\ pc = "idle"
    /\ args' = [board |-> board, placedTiles |-> placedTiles]
    /\ result' = evaluateBoardControl(board, placedTiles)
    /\ pc' = "done"
    /\ UNCHANGED <<wordList, dawg, dictionarySet, board, rack, placedTiles, possibleMoves, gameState>>

NextControl == EvaluateBoardControl \/ Return

SpecControl == InitScore /\ [][NextControl]_vars

\* the neighbours of a new tile that lie on the board
BoardNeighbors(c) ==
    {n \in {<<c[1] + 1, c[2]>>, <<c[1] - 1, c[2]>>, <<c[1], c[2] + 1>>, <<c[1], c[2] - 1>>} :
        InBounds(board, n[1], n[2])}

\* a neighbouring cell left open by the move: no tile on it before the move
\* and none placed on it by the move
LeftOpen(n) == n \notin DOMAIN board.tile /\ n \notin NewCells

\* the penalties of a new tile: one per neighbouring bonus cell left open
OpenPenalties(c) ==
    LET open == {n \in BoardNeighbors(c) : LeftOpen(n)}
    IN  SumOf(open, [n \in open |-> NeighborPenalty(BonusAt(board, n[1], n[2]))])

\* the reward of a new tile lying on a word bonus
OwnReward(c) == IF BonusAt(board, c[1], c[2]) \in {"TW", "DW"} THEN 5 ELSE 0

\* C26: evaluateBoardControl subtracts, for every new tile, 20, 12, 6 or 3 for
\* each neighbouring TW, DW, TL or DL cell that is empty and not covered by a
\* tile of the same move, and nothing for a bonus cell the move covers
C26_PenaltyOnlyForOpenCells ==
    pc = "done" =>
        result = SumOf(NewCells, [c \in NewCells |-> OwnReward(c) - OpenPenalties(c)])

----------------------------------------------------------------------------
(* Conservation of tiles, checked under SpecGame *)

\* the tiles of the game wherever they lie: bag, racks, pending placement, board
TilesInPlay ==
    LET racks == {<<i, k>> : i \in 1..Len(gameState.players), k \in 1..RACK_SIZE}
    IN  [where \in {"bag"} \X (1..Len(gameState.bag)) |-> gameState.bag[where[2]].id]
        @@ [where \in {"rack"} \X {s \in racks : s[2] <= Len(gameState.players[s[1]].rack)} |->
                gameState.players[where[2][1]].rack[where[2][2]].id]
        @@ [where \in {"pending"} \X (1..Len(placedTiles)) |-> placedTiles[where[2]].tile.id]
        @@ [where \in {"board"} \X DOMAIN board.tile |-> board.tile[where[2]].id]

\* the number of places the tile with the given id lies in
TileCount(id) == Cardinality({where \in DOMAIN TilesInPlay : TilesInPlay[where] = id})

TileIds == {TilesInPlay[where] : where \in DOMAIN TilesInPlay}

\* C30: tiles are conserved: every tile lies in exactly one place among the
\* bag, the racks, the pending placement and the board, before and after
\* every step of the game
C30_TilesConserved ==
    [][\A id \in TileIds \cup TileIds' : TileCount(id) = 1 /\ TileCount(id)' = 1]_vars

----------------------------------------------------------------------------
(* The AI turn as the asynchronous computation it is: SpecAsync.  pc holds
   the performAiTurn calls that were started and have not finished, each
   with the gameState and board its closure captured, and the number of
   buttons pressed and tiles dragged so far *)

MaxUserActions == 2    \* most buttons pressed and tiles dragged in a run

\* the AI turn effect after a render in which one of its dependencies changed:
\* it starts performAiTurn for an AI player's turn of a game not over
aiTurnEffect(gs, b, pending) ==
    IF ~gs.gameOver /\ gs.players[gs.currentPlayerIndex + 1].isAi
    THEN Append(pending, [gameState |-> gs, board |-> b])
    ELSE pending

\* pc after a handler of the user changed the state to gs and b
afterUserAction(gs, b) ==
    [aiTurns |-> aiTurnEffect(gs, b, pc.aiTurns), userActions |-> pc.userActions + 1]

\* the tiles of the game looked at, in the order of the shuffled bag
AsyncBag == <<"A", "T", "S">>

\* a game against the AI as startGame sets it up
NewAsyncGame == startGame("STANDARD", "HARD", "HUMAN_VS_AI", "HARD", createTileBag(AsyncBag))

\* CAT down column 7, its T on the START square
CatDown == (<<7, 5>> :> "C") @@ (<<7, 6>> :> "A") @@ (<<7, 7>> :> "T")

\* a position late in a game against the AI: the human player has just played
\* CAT for 10, the bag is empty, the human player is left with A and T and the
\* AI with S, and it is the AI's turn
LateGame ==
    LET g == NewAsyncGame
        human == [g.players[1] EXCEPT !.rack = SubSeq(@, 1, 2), !.score = 10, !.movesMade = 1]
        ai == [g.players[2] EXCEPT !.rack = SubSeq(g.players[1].rack, 3, 3)]
    IN  [g EXCEPT !.players = <<human, ai>>,
                  !.currentPlayerIndex = 1,
                  !.moveHistory = <<[playerId |-> human.id, word |-> <<<<"C", "A", "T">>>>,
                                     score |-> 10]>>,
                  !.teamScores = addTeamScore(@, human.teamId, 10)]

InitAsync ==
    /\ wordList = EngineWords
    /\ dawg = buildDAWG(EngineWords)
    /\ dictionarySet = SeqToSet(EngineWords)
    /\ rack = <<>>
    /\ placedTiles = <<>>
    /\ args = None
    /\ possibleMoves = <<>>
    /\ result = None
    /\ board = BoardWith(STANDARD_BOARD, CatDown)
    /\ gameState = LateGame
    /\ pc = [aiTurns |-> aiTurnEffect(gameState, board, <<>>), userActions |-> 0]

\* a pending performAiTurn finishes: generateAiMove worked on the board and
\* the rack of the closure, and the update takes players, board, bag and
\* teamScores from the closure and currentPlayerIndex and moveHistory from
\* the state of the moment
AiTurnCompletes ==
    \E k \in 1..Len(pc.aiTurns) :
    LET closure == pc.aiTurns[k].gameState
        currentPlayer == closure.players[closure.currentPlayerIndex + 1]
        withCurrent(player) == [closure.players EXCEPT ![closure.currentPlayerIndex + 1] = player]
        nextIndex == (gameState.currentPlayerIndex + 1) % Len(gameState.players)
    IN
    /\ \E out \in {searchMoves(pc.aiTurns[k].board, currentPlayer.rack, dawg, dictionarySet,
                               currentPlayer.difficulty, currentPlayer.useHeuristics,
                               Player(currentPlayer.movesMade), closure.mustStartOnStar)} :
       \E bestMove \in bestMoves(out.moves, currentPlayer.difficulty) :
          /\ args' = [handler |-> "performAiTurn", player |-> closure.currentPlayerIndex,
                      closure |-> pc.aiTurns[k]]
          /\ result' = bestMove
          /\ IF bestMove # Null
             THEN LET tilesNeeded == RACK_SIZE - (Len(out.rack) - Len(bestMove.tiles))
                      d == drawTiles(closure.bag, tilesNeeded)
                      newRack == getRemainingRack(out.rack, bestMove.tiles) \o d.drawn
                      newPlayers == withCurrent([currentPlayer EXCEPT
                                        !.rack = newRack,
                                        !.score = currentPlayer.score + bestMove.score,
                                        !.movesMade = currentPlayer.movesMade + 1])
                      move == [playerId |-> currentPlayer.id, word |-> bestMove.words,
                               score |-> bestMove.score]
                  IN  /\ board' = WithTiles(pc.aiTurns[k].board, bestMove.tiles)
                      /\ gameState' = [gameState EXCEPT
                            !.players = newPlayers,
                            !.bag = d.newBag,
                            !.moveHistory = Append(gameState.moveHistory, move),
                            !.currentPlayerIndex = nextIndex,
                            !.teamScores = addTeamScore(closure.teamScores,
                                                        currentPlayer.teamId, bestMove.score)]
             ELSE LET newPlayers == withCurrent([currentPlayer EXCEPT !.resigned = TRUE])
                  IN  /\ board' = board
                      /\ IF allResigned(newPlayers)
                         THEN gameState' = [gameState EXCEPT !.players = newPlayers,
                                 !.gameOver = TRUE,
                                 !.winner = reduceKeepLater(newPlayers, 2, newPlayers[1]).id]
                         ELSE gameState' = [gameState EXCEPT !.players = newPlayers,
                                               !.currentPlayerIndex = nextIndex]
    /\ pc' = [pc EXCEPT !.aiTurns = aiTurnEffect(gameState', board', RemoveAt(pc.aiTurns, k))]
    /\ UNCHANGED <<wordList, dawg, dictionarySet, rack, placedTiles, possibleMoves>>

\* the Pass button, at any time: recallAll, then the turn moves on
UserPassTurn ==
    /\ pc.userActions < MaxUserActions
    /\ args' = Called("passTurn")
    /\ result' = None
    /\ gameState' = [gameState EXCEPT !.players = recalledPlayers,
                                      !.currentPlayerIndex = NextIndex]
    /\ placedTiles' = <<>>
    /\ pc' = afterUserAction(gameState', board)
    /\ UNCHANGED <<wordList, dawg, dictionarySet, board, rack, possibleMoves>>

\* the orders a shuffle is looked at with: the rack as it is and reversed
ShuffleOutcomes(rk) == {rk, Reverse(rk)}

\* the Shuffle button, at any time: the current player's rack in a new array
UserShuffleRack ==
    /\ pc.userActions < MaxUserActions
    /\ \E newRack \in ShuffleOutcomes(CurrentPlayer.rack) :
          gameState' = [gameState EXCEPT
                           !.players = WithCurrent([CurrentPlayer EXCEPT !.rack = newRack])]
    /\ args' = Called("shuffleRack")
    /\ result' = None
    /\ pc' = afterUserAction(gameState', board)
    /\ UNCHANGED <<wordList, dawg, dictionarySet, board, rack, placedTiles, possibleMoves>>

\* a tile dragged from the rack on screen (that of players[0], shown when a
\* human plays) to a free cell, at any time
UserPlaceTile ==
    /\ pc.userActions < MaxUserActions
    /\ ~gameState.gameOver
    /\ gameState.gameMode = "HUMAN_VS_AI"
    /\ \E i \in 1..Len(gameState.players[1].rack), c \in HumanCells :
          /\ ~HasTile(board, c[1], c[2])
          /\ ~PlacedAt(placedTiles, c[1], c[2])
          /\ LET tile == gameState.players[1].rack[i]
                 newRack == SelectSeq(CurrentPlayer.rack, LAMBDA t : t.id # tile.id)
             IN  /\ gameState' = [gameState EXCEPT
                        !.players = WithCurrent([CurrentPlayer EXCEPT !.rack = newRack])]
                 /\ placedTiles' = Append(placedTiles, [x |-> c[1], y |-> c[2], tile |-> tile])
    /\ args' = Called("placeTile")
    /\ result' = None
    /\ pc' = afterUserAction(gameState', board)
    /\ UNCHANGED <<wordList, dawg, dictionarySet, board, rack, possibleMoves>>

\* the Recall All button, at any time
UserRecallAll ==
    /\ pc.userActions < MaxUserActions
    /\ Len(placedTiles) > 0
    /\ gameState' = [gameState EXCEPT !.players = recalledPlayers]
    /\ placedTiles' = <<>>
    /\ args' = Called("recallAll")
    /\ result' = None
    /\ pc' = afterUserAction(gameState', board)
    /\ UNCHANGED <<wordList, dawg, dictionarySet, board, rack, possibleMoves>>

\* the Submit button, at any time; a refused move changes no dependency of
\* the AI turn effect
UserSubmitTurn ==
    /\ pc.userActions < MaxUserActions
    /\ Len(placedTiles) > 0
    /\ args' = Called("submitTurn")
    /\ LET validation == validateMove(board, placedTiles, Len(gameState.moveHistory) = 0,
                                      Player(CurrentPlayer.movesMade), gameState.mustStartOnStar)
           currentMoveTiles == validation.placedTiles
           invalidWords == validateWords(dictionarySet, validation.words)
       IN  IF ~validation.isValid \/ (Len(validation.words) > 0 /\ Len(invalidWords) > 0)
           THEN /\ placedTiles' = currentMoveTiles
                /\ result' = [isValid |-> FALSE]
                /\ pc' = [pc EXCEPT !.userActions = @ + 1]
                /\ UNCHANGED <<board, gameState>>
           ELSE LET score == calculateScore(board, currentMoveTiles)
                    d == drawTiles(gameState.bag, RACK_SIZE - Len(CurrentPlayer.rack))
                    newPlayers == WithCurrent([CurrentPlayer EXCEPT
                                      !.rack = CurrentPlayer.rack \o d.drawn,
                                      !.score = CurrentPlayer.score + score,
                                      !.movesMade = CurrentPlayer.movesMade + 1])
                    move == [playerId |-> CurrentPlayer.id, word |-> validation.words,
                             score |-> score]
                IN  /\ board' = WithTiles(board, currentMoveTiles)
                    /\ gameState' = [gameState EXCEPT
                          !.players = newPlayers,
                          !.bag = d.newBag,
                          !.moveHistory = Append(gameState.moveHistory, move),
                          !.currentPlayerIndex = NextIndex,
                          !.teamScores = addTeamScore(gameState.teamScores,
                                                      CurrentPlayer.teamId, score)]
                    /\ placedTiles' = <<>>
                    /\ result' = [isValid |-> TRUE]
                    /\ pc' = afterUserAction(gameState', board')
    /\ UNCHANGED <<wordList, dawg, dictionarySet, rack, possibleMoves>>

\* the New Game button, at any time: startGame
UserStartGame ==
    /\ pc.userActions < MaxUserActions
    /\ gameState' = NewAsyncGame
    /\ board' = initializeBoard(STANDARD_BOARD)
    /\ placedTiles' = <<>>
    /\ args' = Called("startGame")
    /\ result' = None
    /\ pc' = afterUserAction(gameState', board')
    /\ UNCHANGED <<wordList, dawg, dictionarySet, rack, possibleMoves>>

NextAsync ==
    \/ AiTurnCompletes
    \/ UserPassTurn
    \/ UserShuffleRack
    \/ UserPlaceTile
    \/ UserRecallAll
    \/ UserSubmitTurn
    \/ UserStartGame

SpecAsync == InitAsync /\ [][NextAsync]_vars

\* the step applies the update of a performAiTurn call
AiTurnApplied == args'.handler = "performAiTurn"

\* the update meets the turn it was computed for: the game is not over, it
\* is still the turn of the player the call was started for, and no move was
\* recorded since the call was started
AppliedToOwnTurn ==
    /\ ~gameState.gameOver
    /\ gameState.currentPlayerIndex = args'.player
    /\ gameState.moveHistory = args'.closure.gameState.moveHistory

\* after the update the game is over or it is the turn of the player after the
\* one the call was started for
TurnAdvancedByOne ==
    \/ gameState'.gameOver
    \/ gameState'.currentPlayerIndex = (args'.player + 1) % Len(gameState.players)

\* every tile on the board before the update is on the same cell after it
BoardOnlyGains ==
    \A c \in DOMAIN board.tile : c \in DOMAIN board'.tile /\ board'.tile[c] = board.tile[c]

\* C29: each AI turn takes effect exactly once, whatever the user does while
\* the move computation is pending: the update of a performAiTurn call is
\* applied to the turn the call was started for and to no later one, it moves
\* currentPlayerIndex on by exactly one from that turn's player, and it takes
\* no tile off the board and replaces none
C29_AiTurnOnce ==
    [][AiTurnApplied => AppliedToOwnTurn /\ TurnAdvancedByOne /\ BoardOnlyGains]_vars

====
